---- MODULE Spec2Model ----
(***************************************************************************)
(* A model of the containerized execution sandbox of OpenManus:            *)
(*   app/sandbox/core/sandbox.py   DockerSandbox                           *)
(*   app/sandbox/core/terminal.py  DockerSession, AsyncDockerizedTerminal  *)
(*   app/sandbox/client.py         LocalSandboxClient                      *)
(*                                                                         *)
(* SpecLife  : container life cycle (create / cleanup, the facade).        *)
(***************************************************************************)
EXTENDS Integers, Sequences, FiniteSets, TLC

(***************************************************************************)
(* Bounds of the model.                                                    *)
(***************************************************************************)
\* number of create calls a behaviour may make (each allocates one container
\* name and one host directory)
MaxCreates == 2
\* number of run_command calls a behaviour may make on the session
MaxCommands == 2
\* number of callers (coroutines) that use one sandbox concurrently
NCallers == 2

\* Bash.execute calls made on one tool
MaxBashRuns == 3

\* step budget of the agent
MaxSteps == 3

\* run calls made on the agent
MaxRuns == 3

\* longest list of steps given to the planning tool
MaxPlanSteps == 2

\* PythonExecute.execute calls made on one tool
MaxPyRuns == 3

VARIABLES
    \* ---- life cycle ----
    engine,     \* the container engine: container id -> its state
    hostDirs,   \* host directories made by _ensure_host_dir that still exist
    sb,         \* the DockerSandbox object: its container and terminal fields
    held,       \* LocalSandboxClient.sandbox is not None (it refers to sb)
    nCreates,   \* create calls made so far
    lastOp,     \* the last operation and how it ended
    \* ---- interactive session ----
    calls,      \* caller -> its run_command call (the coroutine's locals)
    wire,       \* bytes the container has sent and nobody has received yet
    stdin,      \* command lines written to the stream that bash has not
                \* finished: it runs the first, the others wait
    running,    \* the piece of output the running command writes next
    zombies,    \* recv calls of cancelled reads still blocked in a thread
    issued,     \* run_command calls made so far
    written,    \* numbers of the calls whose command was sent, in order
    timedOut,   \* some call on this session has raised a timeout
    overlapped, \* some call was issued while another was in flight
    callers,    \* the callers (coroutines) that use the sandbox
    stream,     \* the exec stream: "open", "eof" (the container's end is
                \* closed: bash has gone) or "closed" (socket.close() ran)
    attach,     \* DockerSession.create's handshake: its position and the
                \* buffer of _read_until_prompt
    \* ---- file transfer ----
    fsDirs,     \* the container's directories (each a sequence of names)
    fsFiles,    \* the container's files: path -> bytes
    hostFs,     \* the host's files: host path -> what is there
    fileOp,     \* the last file operation and how it ended
    \* ---- the caller ----
    inputs,     \* what the caller and the engine bring: the paths,
                \* contents, copy sources, copy destinations, commands and
                \* timeouts the caller uses, the configured timeout, the
                \* steps of create and the sub-steps of cleanup that may fail
    \* ---- tools and agents ----
    bash,       \* the Bash tool: its _BashSession, the bash process and
                \* the execute call in progress
    agent,      \* a BaseAgent and the run calls made on it
    planning,   \* a PlanningTool: its plans and its active plan id
    flow,       \* a PlanningFlow, its executor and its execute call
    pyexec      \* the PythonExecute tool, sys.stdout and the worker threads

lifeVars == <<engine, hostDirs, sb, held, nCreates, lastOp>>
sessVars == <<calls, wire, stdin, running, zombies, issued, written,
              timedOut, overlapped, callers, stream, attach>>
fileVars == <<fsDirs, fsFiles, hostFs, fileOp, inputs>>
vars == <<engine, hostDirs, sb, held, nCreates, lastOp,
          calls, wire, stdin, running, zombies, issued, written,
          timedOut, overlapped, callers, stream, attach,
          fsDirs, fsFiles, hostFs, fileOp, inputs, bash, agent,
          planning, flow, pyexec>>

\* what the actions of one part leave alone
toolVars == <<bash, agent, planning, flow, pyexec>>
NotLife == <<sessVars, fileVars, toolVars>>
NotSession == <<lifeVars, fileVars, toolVars>>
NotFiles == <<lifeVars, sessVars, toolVars>>
NotTools == <<lifeVars, sessVars, fileVars>>

(***************************************************************************)
(* Text.  A string is a sequence of characters, each a one-symbol string;  *)
(* "LF" and "CR" stand for the line feed and the carriage return.  A byte  *)
(* on the exec stream is a record [ch, src, kind]: the character, the      *)
(* number of the command it is owed to and what it is part of ("echo":     *)
(* the tty's echo of the command line, "out": the command's output,        *)
(* "code": the line printed by echo $?, "prompt": the shell's prompt).     *)
(***************************************************************************)
Whitespace == {" ", "CR", "LF", "TAB"}
Digits == {"0", "1", "2", "3", "4", "5", "6", "7", "8", "9"}

UpperToLower ==
    "A" :> "a" @@ "B" :> "b" @@ "C" :> "c" @@ "D" :> "d" @@ "E" :> "e" @@
    "F" :> "f" @@ "G" :> "g" @@ "H" :> "h" @@ "I" :> "i" @@ "J" :> "j" @@
    "K" :> "k" @@ "L" :> "l" @@ "M" :> "m" @@ "N" :> "n" @@ "O" :> "o" @@
    "P" :> "p" @@ "Q" :> "q" @@ "R" :> "r" @@ "S" :> "s" @@ "T" :> "t" @@
    "U" :> "u" @@ "V" :> "v" @@ "W" :> "w" @@ "X" :> "x" @@ "Y" :> "y" @@
    "Z" :> "z"

\* str.lower()
Lower(s) ==
    [i \in 1..Len(s) |->
        IF s[i] \in DOMAIN UpperToLower THEN UpperToLower[s[i]] ELSE s[i]]

\* pat in s
Contains(s, pat) ==
    \E i \in 0..(Len(s) - Len(pat)) : SubSeq(s, i + 1, i + Len(pat)) = pat

StartsWith(s, pat) == Len(s) >= Len(pat) /\ SubSeq(s, 1, Len(pat)) = pat

EndsWith(s, pat) ==
    Len(s) >= Len(pat) /\ SubSeq(s, Len(s) - Len(pat) + 1, Len(s)) = pat

\* the characters of a sequence of stream bytes
Ch(b) == [i \in 1..Len(b) |-> b[i].ch]

Tag(s, src, kind) ==
    [i \in 1..Len(s) |-> [ch |-> s[i], src |-> src, kind |-> kind]]

\* s.strip(), for characters c (Strip) and for stream bytes b (StripB)
StripRange(c) ==
    LET keep == { i \in 1..Len(c) : c[i] \notin Whitespace }
    IN IF keep = {} THEN <<1, 0>>
       ELSE << CHOOSE i \in keep : \A j \in keep : i <= j,
               CHOOSE i \in keep : \A j \in keep : i >= j >>

Strip(c) == SubSeq(c, StripRange(c)[1], StripRange(c)[2])

StripB(b) == SubSeq(b, StripRange(Ch(b))[1], StripRange(Ch(b))[2])

\* line.rstrip(b"\r")
RStripCR(b) ==
    LET keep == { i \in 1..Len(b) : b[i].ch /= "CR" }
    IN IF keep = {} THEN <<>>
       ELSE SubSeq(b, 1, CHOOSE i \in keep : \A j \in keep : i >= j)

\* bytes.isdigit()
IsDigit(c) == Len(c) > 0 /\ \A i \in 1..Len(c) : c[i] \in Digits

RECURSIVE SplitLF(_)
\* buffer.split(b"\n")
SplitLF(b) ==
    LET at == { i \in 1..Len(b) : b[i].ch = "LF" }
    IN IF at = {} THEN <<b>>
       ELSE LET i == CHOOSE i \in at : \A j \in at : i <= j
            IN <<SubSeq(b, 1, i - 1)>> \o SplitLF(SubSeq(b, i + 1, Len(b)))

RECURSIVE JoinLF(_)
\* b"\n".join(result_lines)
JoinLF(lines) ==
    IF lines = <<>> THEN <<>>
    ELSE IF Len(lines) = 1 THEN lines[1]
    ELSE lines[1] \o <<[ch |-> "LF", src |-> 0, kind |-> "join"]>>
         \o JoinLF(Tail(lines))

(***************************************************************************)
(* Paths.                                                                  *)
(***************************************************************************)
RECURSIVE Split(_, _)
\* s.split(sep)
Split(s, sep) ==
    LET at == { i \in 1..Len(s) : s[i] = sep }
    IN IF at = {} THEN <<s>>
       ELSE LET i == CHOOSE i \in at : \A j \in at : i <= j
            IN <<SubSeq(s, 1, i - 1)>> \o Split(SubSeq(s, i + 1, Len(s)), sep)

\* the working directory of the sandbox configuration
WORK_DIR == <<"/", "w", "o", "r", "k", "s", "p", "a", "c", "e">>

\* how the container resolves a path: its names, from the root
Norm(path) ==
    SelectSeq(Split(path, "/"), LAMBDA n : n /= <<>> /\ n /= <<".">>)

Prefixes(d) == { SubSeq(d, 1, i) : i \in 0..Len(d) }

NoFiles == [q \in {} |-> <<>>]

\* The sandbox lets go of its container, for a new one or for none: the
\* exec stream is one nothing was written to and the file system holds the
\* working directory only.  The calls made so far, the host's files and
\* the caller's inputs stay.
\* DockerSession.create has returned: the handshake has seen the prompt
Attached == [pc |-> "done", buffer |-> <<>>, atEof |-> FALSE]

DropContainer ==
    /\ wire' = <<>>
    /\ stdin' = <<>>
    /\ running' = 1
    /\ zombies' = 0
    /\ written' = <<>>
    /\ timedOut' = FALSE
    /\ overlapped' = FALSE
    /\ fsDirs' = Prefixes(Norm(WORK_DIR))
    /\ fsFiles' = NoFiles
    /\ stream' = "open" /\ attach' = Attached
    /\ UNCHANGED <<calls, issued, callers, hostFs, fileOp, inputs, toolVars>>

(***************************************************************************)
(* DockerSession._sanitize_command                                         *)
(***************************************************************************)
RM_RF_ROOT == <<"r", "m", " ", "-", "r", "f", " ", "/">>
RM_RF_STAR == <<"r", "m", " ", "-", "r", "f", " ", "/", "*">>
MKFS == <<"m", "k", "f", "s">>
DD_ZERO ==
    <<"d", "d", " ", "i", "f", "=", "/", "d", "e", "v", "/", "z", "e", "r", "o">>
FORK_BOMB == <<":", "(", ")", "{", ":", "|", ":", "&", "}", ";", ":">>
CHMOD_777 ==
    <<"c", "h", "m", "o", "d", " ", "-", "R", " ", "7", "7", "7", " ", "/">>
CHOWN_R == <<"c", "h", "o", "w", "n", " ", "-", "R">>

risky_commands ==
    {RM_RF_ROOT, RM_RF_STAR, MKFS, DD_ZERO, FORK_BOMB, CHMOD_777, CHOWN_R}

\* The mutant: the deny-list compared with the whole command.
IsRiskyWhole(command) == \E risky \in risky_commands : risky = Lower(command)

\* some risky pattern is in command.lower(): the sanitizer raises ValueError
IsRisky(command) ==
    LET lowered == Lower(command)
    IN \E risky \in risky_commands : Contains(lowered, risky)

RECURSIVE EscapeQuotes(_)
\* command.replace("'", "'\\''")
EscapeQuotes(command) ==
    IF command = <<>> THEN <<>>
    ELSE (IF Head(command) = "'" THEN <<"'", "\\", "'", "'">>
          ELSE <<Head(command)>>) \o EscapeQuotes(Tail(command))

\* f"bash -c '{sanitized_command}' && echo $?\n"
FullCommand(command) ==
    <<"b", "a", "s", "h", " ", "-", "c", " ", "'">>
    \o EscapeQuotes(command)
    \o <<"'", " ", "&", "&", " ", "e", "c", "h", "o", " ", "$", "?", "LF">>

(***************************************************************************)
(* DockerSandbox: the object's fields.  container = 0 stands for None;     *)
(* terminal / session / socket / exec_id are TRUE when the attribute (of   *)
(* the sandbox, of its terminal, of the terminal's session) is set.        *)
(***************************************************************************)
ContainerIds == 1..MaxCreates

\* RuntimeError("Sandbox not initialized")
NotInitialized == "Sandbox not initialized"

NewSandbox ==
    [container |-> 0, terminal |-> FALSE, session |-> FALSE,
     socket |-> FALSE, exec_id |-> FALSE]

\* The steps of DockerSandbox.create, in the order of the code; each may raise.
CreateSteps ==
    << "makedirs",          \* _ensure_host_dir: os.makedirs
       "host_config",       \* client.api.create_host_config
       "create_container",  \* client.api.create_container
       "get",               \* client.containers.get(container["Id"])
       "start",             \* container.start
       "terminal_ctor",     \* AsyncDockerizedTerminal(...): containers.get
       "ensure_workdir",    \* terminal.init: _ensure_workdir
       "exec_create",       \* session.create: api.exec_create
       "exec_start",        \* session.create: api.exec_start / socket
       "handshake" >>       \* session.create: _read_until_prompt

\* The effect of one step of create that succeeded, on [obj, eng, dirs];
\* k is the identity (container id, host directory) this call allocates.
CreateStep(step, st, k) ==
    CASE step = "makedirs" ->
            [st EXCEPT !.dirs = @ \cup {k}]
      [] step = "create_container" ->
            [st EXCEPT !.eng[k] = "created"]
      [] step = "get" ->
            [st EXCEPT !.obj.container = k]
      [] step = "start" ->
            [st EXCEPT !.eng[st.obj.container] = "running"]
      [] step = "terminal_ctor" ->
            [st EXCEPT !.obj.terminal = TRUE, !.obj.session = FALSE,
                       !.obj.socket = FALSE, !.obj.exec_id = FALSE]
      [] step = "ensure_workdir" ->
            \* init goes on to self.session = DockerSession(container.id)
            [st EXCEPT !.obj.session = TRUE]
      [] step = "exec_create" ->
            [st EXCEPT !.obj.exec_id = TRUE]
      [] step = "exec_start" ->
            [st EXCEPT !.obj.socket = TRUE]
      [] OTHER -> st

RECURSIVE RunCreateSteps(_, _, _, _)
\* steps i .. n-1 of create applied to st
RunCreateSteps(i, n, st, k) ==
    IF i >= n THEN st
    ELSE RunCreateSteps(i + 1, n, CreateStep(CreateSteps[i], st, k), k)

(***************************************************************************)
(* DockerSession.close and AsyncDockerizedTerminal.close.                  *)
(* cf names the sub-steps that fail: "sendall", "shutdown", "sockclose",   *)
(* "inspect".                                                              *)
(***************************************************************************)
CloseFailures == SUBSET {"sendall", "shutdown", "sockclose", "inspect"}

\* the session's fields after close; sendall and shutdown failures are
\* swallowed, a failing socket.close() jumps to the outer except
SessionClose(obj, cf) ==
    IF obj.socket /\ "sockclose" \in cf
    THEN obj
    ELSE [obj EXCEPT !.socket = FALSE, !.exec_id = FALSE]

\* whether an exception leaves DockerSession.close
SessionCloseRaises(obj, cf) == FALSE

TerminalCloseRaises(obj, cf) ==
    obj.session /\ SessionCloseRaises(obj, cf)

(***************************************************************************)
(* DockerSandbox.cleanup.  f = [close, stop, remove]: which sub-steps fail *)
(***************************************************************************)
CleanupFailures == [close : CloseFailures, stop : BOOLEAN, remove : BOOLEAN]

NoFailure == [close |-> {}, stop |-> FALSE, remove |-> FALSE]

\* the failures that can happen to the sub-steps cleanup attempts on obj
PossibleFailures(obj) ==
    { f \in CleanupFailures :
        /\ f.close \subseteq
              (IF obj.terminal /\ obj.session /\ obj.socket
                 THEN {"sendall", "shutdown", "sockclose"} ELSE {})
              \cup (IF obj.terminal /\ obj.session /\ obj.exec_id
                      /\ ~(obj.socket /\ "sockclose" \in f.close)
                    THEN {"inspect"} ELSE {})
        /\ (obj.container = 0 => ~f.stop /\ ~f.remove) }

\* the errors list cleanup accumulates
CleanupErrors(obj, f) ==
    (IF obj.terminal /\ TerminalCloseRaises(obj, f.close)
        THEN <<"Terminal cleanup error">> ELSE <<>>)
    \o (IF obj.container /= 0 /\ f.stop
        THEN <<"Container stop error">> ELSE <<>>)
    \o (IF obj.container /= 0 /\ f.remove
        THEN <<"Container remove error">> ELSE <<>>)

\* The mutant: a cleanup that raises what it has collected.
CleanupRaisesCollected(errors) == errors /= <<>>

\* whether cleanup raises: the collected errors are printed, never raised
CleanupRaises(errors) == FALSE

\* The mutant: stop and remove in one try block.
CleanupCallsOneTry(obj, f) ==
    (IF obj.terminal THEN <<"close">> ELSE <<>>)
    \o (IF obj.container /= 0
        THEN <<"stop">> \o (IF f.stop THEN <<>> ELSE <<"remove">>)
        ELSE <<>>)

\* the teardown steps cleanup attempts, in order, when the sub-steps named
\* by f fail: each step has a try block of its own
CleanupCalls(obj, f) ==
    (IF obj.terminal THEN <<"close">> ELSE <<>>)
    \o (IF obj.container /= 0 THEN <<"stop">> \o <<"remove">> ELSE <<>>)

\* The mutant: a cleanup that keeps the references it holds.
CleanupKeepsRefs(st, f) == st

\* a cleanup that drops the container and keeps the terminal
CleanupKeepsTerminal(st, f) ==
    LET c == st.obj.container
        eng2 == IF c /= 0 /\ ~f.remove
                THEN [st.eng EXCEPT ![c] = "absent"] ELSE st.eng
    IN [st EXCEPT !.obj.container = 0, !.eng = eng2]

\* cleanup's effect on [obj, eng, dirs]
Cleanup(st, f) ==
    LET obj == st.obj
        c   == obj.container
        eng1 == IF c /= 0 /\ ~f.stop /\ st.eng[c] = "running"
                THEN [st.eng EXCEPT ![c] = "exited"] ELSE st.eng
        eng2 == IF c /= 0 /\ ~f.remove
                THEN [eng1 EXCEPT ![c] = "absent"] ELSE eng1
    IN [st EXCEPT !.obj = NewSandbox, !.eng = eng2]

(***************************************************************************)
(* DockerSandbox.create: steps 1 .. failAt-1 succeed and step failAt       *)
(* raises (failAt = 0: no step fails); on a failure cleanup runs and the   *)
(* error is wrapped in a RuntimeError.                                     *)
(***************************************************************************)
FailPoints == 0..Len(CreateSteps)

Create(st, k, failAt, f) ==
    LET n    == IF failAt = 0 THEN Len(CreateSteps) + 1 ELSE failAt
        ran  == RunCreateSteps(1, n, st, k)
    IN IF failAt = 0 THEN ran ELSE Cleanup(ran, f)

\* what create raises: "none", or the wrapped creation error
CreateRaises(failAt, cleanupRaised) ==
    IF failAt = 0 THEN "none"
    ELSE IF cleanupRaised THEN "cleanup error" ELSE "RuntimeError"

EngineOk(obj, f) == obj.container = 0 \/ (~f.stop /\ ~f.remove)

State == [obj |-> sb, eng |-> engine, dirs |-> hostDirs]

NoOp ==
    [op |-> "init", raised |-> "none", cause |-> "none", cid |-> 0,
     cleanupRan |-> FALSE, engineOk |-> TRUE, afterCreate |-> FALSE,
     calls |-> <<>>, errors |-> <<>>, before |-> NewSandbox,
     repeat |-> FALSE, allOk |-> TRUE]

\* DockerSandbox.create on the object (k: the identity this call allocates)
DoCreate(obj0, failAt) ==
    LET k   == nCreates + 1
        st0 == [obj |-> obj0, eng |-> engine, dirs |-> hostDirs]
        n   == IF failAt = 0 THEN Len(CreateSteps) + 1 ELSE failAt
        mid == RunCreateSteps(1, n, st0, k)
    IN /\ nCreates < MaxCreates
       /\ \A c \in callers : calls[c].pc /= "reading"
       /\ nCreates' = k
       /\ DropContainer
       /\ \E f \in (IF failAt = 0 THEN {NoFailure}
                   ELSE PossibleFailures(mid.obj) \cap inputs.failures) :
          LET st1 == Create(st0, k, failAt, f) IN
          /\ sb' = st1.obj
          /\ engine' = st1.eng
          /\ hostDirs' = st1.dirs
          /\ lastOp' =
            [op |-> "create",
             raised |-> CreateRaises(failAt,
                            CleanupRaises(CleanupErrors(mid.obj, f))),
             cause |-> IF failAt = 0 THEN "none" ELSE CreateSteps[failAt],
             cid |-> k,
             cleanupRan |-> failAt /= 0,
             engineOk |-> failAt = 0 \/ EngineOk(mid.obj, f),
             afterCreate |-> FALSE,
             calls |-> IF failAt = 0 THEN <<>>
                       ELSE CleanupCalls(mid.obj, f),
             errors |-> IF failAt = 0 THEN <<>>
                        ELSE CleanupErrors(mid.obj, f),
             before |-> obj0,
             repeat |-> FALSE,
             allOk |-> lastOp.allOk /\ failAt = 0]

\* DockerSandbox.create called on the sandbox object
SandboxCreate ==
    \E failAt \in inputs.failAts :
        /\ DoCreate(sb, failAt)
        /\ UNCHANGED held

\* LocalSandboxClient.create: a new DockerSandbox replaces the held one
ClientCreate ==
    \E failAt \in inputs.failAts :
        /\ DoCreate(NewSandbox, failAt)
        /\ held' = TRUE

DoCleanup(opname, f) ==
    LET st1 == Cleanup(State, f)
    IN /\ \A c \in callers : calls[c].pc /= "reading"
       /\ DropContainer
       /\ sb' = st1.obj
       /\ engine' = st1.eng
       /\ hostDirs' = st1.dirs
       /\ lastOp' =
            [op |-> opname,
             raised |-> IF CleanupRaises(CleanupErrors(sb, f))
                        THEN "cleanup error" ELSE "none",
             cause |-> "none",
             cid |-> sb.container,
             cleanupRan |-> TRUE,
             engineOk |-> EngineOk(sb, f),
             afterCreate |-> lastOp.op = "create" /\ lastOp.raised = "none",
             calls |-> CleanupCalls(sb, f),
             errors |-> CleanupErrors(sb, f),
             before |-> sb,
             repeat |-> lastOp.cleanupRan
                        /\ lastOp.op \in {"cleanup", "client_cleanup"},
             allOk |-> lastOp.allOk /\ EngineOk(sb, f)]
       /\ UNCHANGED nCreates

\* DockerSandbox.cleanup called on the sandbox object
SandboxCleanup ==
    \E f \in PossibleFailures(sb) \cap inputs.failures :
        /\ DoCleanup("cleanup", f)
        /\ UNCHANGED held

\* The mutant: a facade that keeps its sandbox after cleaning it up.
ClientCleanupKeepsSandbox ==
    /\ held
    /\ \E f \in PossibleFailures(sb) \cap inputs.failures :
            DoCleanup("client_cleanup", f)
    /\ UNCHANGED held

\* LocalSandboxClient.cleanup
ClientCleanup ==
    IF held
    THEN /\ \E f \in PossibleFailures(sb) \cap inputs.failures :
                DoCleanup("client_cleanup", f)
         /\ held' = FALSE
    ELSE /\ lastOp' = [NoOp EXCEPT
                          !.op = "client_cleanup", !.before = sb,
                          !.repeat =
                              lastOp.cleanupRan
                              /\ lastOp.op \in {"cleanup", "client_cleanup"},
                          !.allOk = lastOp.allOk]
         /\ UNCHANGED <<engine, hostDirs, sb, held, nCreates>>
         /\ UNCHANGED NotLife

(***************************************************************************)
(* The interactive session: DockerSession.execute over the exec stream.    *)
(***************************************************************************)
Callers == 1..NCallers

\* The commands a caller may run, with what bash does with each: the pieces
\* of output it writes (one piece at a time) and whether it exits with 0.
Commands ==
    << [text |-> <<"e", "c", "h", "o", " ", "a">>,
        segs |-> << <<"a", "CR", "LF">> >>, ok |-> TRUE],
       [text |-> <<"e", "c", "h", "o", " ", "7">>,
        segs |-> << <<"7", "CR", "LF">> >>, ok |-> TRUE],
       [text |-> <<"f", "a", "l", "s", "e">>,
        segs |-> <<>>, ok |-> FALSE],
       \* a script that prints "a$ ", pauses, and prints "b"
       [text |-> <<".", "/", "p">>,
        segs |-> << <<"a", "$", " ">>, <<"b", "CR", "LF">> >>, ok |-> TRUE],
       [text |-> <<"r", "m", " ", "-", "r", "f", " ", "/", "x">>,
        segs |-> <<>>, ok |-> TRUE],
       [text |-> <<"c", "h", "o", "w", "n", " ", "-", "R", " ", "a">>,
        segs |-> <<>>, ok |-> TRUE] >>

CommandIds == 1..Len(Commands)

\* PS1='$ '
PROMPT == <<"$", " ">>

\* the tty echoes what is written to it, a line feed as CR LF
RECURSIVE TtyEcho(_)
TtyEcho(s) ==
    IF s = <<>> THEN <<>>
    ELSE (IF Head(s) = "LF" THEN <<"CR", "LF">> ELSE <<Head(s)>>)
         \o TtyEcho(Tail(s))

IdleCall ==
    [pc |-> "idle", id |-> 0, cmd |-> 1, buffer |-> <<>>,
     result_lines |-> <<>>, command_sent |-> FALSE, ended |-> "none",
     raised |-> "none", sandboxRaised |-> "none", result |-> <<>>,
     wrote |-> FALSE, afterTimeout |-> FALSE, alone |-> TRUE,
     completed |-> FALSE, sandbox |-> 0, afterRejected |-> FALSE,
     given |-> 0, timeout |-> 0, atEof |-> FALSE, afterClose |-> FALSE]

\* The mutant: every exception of the read is reported as a RuntimeError.
ExecuteRaisesGeneric(exc) == "RuntimeError"

\* DockerSession.execute's except clauses: what it raises for exc
ExecuteRaises(exc) ==
    IF exc = "asyncio.TimeoutError" THEN "TimeoutError" ELSE "RuntimeError"

\* DockerSandbox.run_command's except clause: what it raises for exc
RunCommandRaises(exc) ==
    IF exc = "TimeoutError" THEN "SandboxTimeoutError" ELSE exc

RECURSIVE ProcessLines(_, _, _)
\* the loop over the complete lines of a chunk
ProcessLines(lines, sent, acc) ==
    IF lines = <<>> THEN [command_sent |-> sent, result_lines |-> acc]
    ELSE LET line == RStripCR(Head(lines))
             c    == Strip(Ch(line))
         IN IF ~sent THEN ProcessLines(Tail(lines), TRUE, acc)
            ELSE IF c = <<"e", "c", "h", "o", " ", "$", "?">> \/ IsDigit(c)
                 THEN ProcessLines(Tail(lines), sent, acc)
            ELSE IF c /= <<>>
                 THEN ProcessLines(Tail(lines), sent, Append(acc, line))
            ELSE ProcessLines(Tail(lines), sent, acc)

\* re.sub(r"\n\$ echo \$\$?.*$", "", output) on the joined lines: a last line
\* that starts with "$ echo $" goes, with the line feed before it
DropTrailingEcho(lines) ==
    IF Len(lines) >= 2
       /\ StartsWith(Ch(lines[Len(lines)]),
                     <<"$", " ", "e", "c", "h", "o", " ", "$">>)
    THEN SubSeq(lines, 1, Len(lines) - 1)
    ELSE lines

\* what execute returns once the read loop has ended
Output(result_lines) == StripB(JoinLF(DropTrailingEcho(result_lines)))

\* the read loop's body for one received chunk
ReadChunk(call, chunk) ==
    LET parts == SplitLF(call.buffer \o chunk)
        done  == ProcessLines(SubSeq(parts, 1, Len(parts) - 1),
                              call.command_sent, call.result_lines)
        buf   == parts[Len(parts)]
    IN IF EndsWith(Ch(buf), PROMPT)
       THEN \* break: the coroutine returns and its locals are gone
            [call EXCEPT !.pc = "done", !.ended = "break",
                         !.buffer = <<>>,
                         !.command_sent = FALSE,
                         !.result_lines = <<>>,
                         !.result = Output(done.result_lines)]
       ELSE [call EXCEPT !.buffer = buf,
                         !.command_sent = done.command_sent,
                         !.result_lines = done.result_lines]

InFlight == { c \in Callers : calls[c].pc = "reading" }

\* AsyncDockerizedTerminal.__init__'s default_timeout
default_timeout == 60

\* The mutant: the caller's timeout handed to execute as it was given.
TimeoutAsGiven(t, config_timeout) == t

\* the timeout execute is given (0: None or 0, no wait_for):
\* timeout or self.config.timeout, then timeout or self.default_timeout
EffectiveTimeout(t, config_timeout) ==
    LET passed == IF t /= 0 THEN t ELSE config_timeout
    IN IF passed /= 0 THEN passed ELSE default_timeout

\* whether socket.sendall can succeed: it raises on a socket that was
\* closed, and may or may not raise once the container's end is gone
SendOutcomes ==
    CASE stream = "open" -> {TRUE}
      [] stream = "eof" -> BOOLEAN
      [] OTHER -> {FALSE}

\* run_command(cmd, timeout = t) by caller c, up to the first await of the
\* read loop
Execute(c, cmd, t) ==
    /\ calls[c].pc /= "reading"
    /\ attach.pc = "done"
    /\ issued < MaxCommands
    /\ issued' = issued + 1
    /\ overlapped' = (overlapped \/ InFlight /= {})
    /\ \E sent \in SendOutcomes :
         LET call == [IdleCall EXCEPT
                        !.id = issued + 1, !.cmd = cmd,
                        !.given = t,
                        !.timeout = EffectiveTimeout(t, inputs.config_timeout),
                        !.afterTimeout = timedOut,
                        !.afterClose = (lastOp.op = "close"),
                        !.alone = ~overlapped /\ InFlight = {},
                        !.sandbox = IF held /\ sb.terminal
                                    THEN sb.container ELSE 0,
                        !.afterRejected =
                            (calls[c].ended = "rejected"
                             /\ calls[c].id = issued
                             /\ wire = <<>> /\ stdin = <<>>
                             /\ zombies = 0)]
         IN IF ~held \/ ~sb.terminal
            THEN \* LocalSandboxClient.run_command without a sandbox, or
                 \* DockerSandbox.run_command without a terminal
                 /\ calls' = [calls EXCEPT ![c] =
                       [call EXCEPT !.pc = "done", !.ended = "uninitialized",
                          !.raised = NotInitialized,
                          !.sandboxRaised = NotInitialized]]
                 /\ UNCHANGED <<wire, stdin, written>>
            ELSE IF ~sb.session \/ ~sb.socket
            THEN \* "Terminal not initialized", "Session not initialized"
                 /\ calls' = [calls EXCEPT ![c] =
                       [call EXCEPT !.pc = "done", !.ended = "closed",
                          !.raised = "RuntimeError",
                          !.sandboxRaised = RunCommandRaises("RuntimeError")]]
                 /\ UNCHANGED <<wire, stdin, written>>
            ELSE IF IsRisky(Commands[cmd].text)
            THEN /\ calls' = [calls EXCEPT ![c] =
                       [call EXCEPT !.pc = "done", !.ended = "rejected",
                          !.raised = ExecuteRaises("ValueError"),
                          !.sandboxRaised =
                              RunCommandRaises(ExecuteRaises("ValueError"))]]
                 /\ UNCHANGED <<wire, stdin, written>>
            ELSE IF ~sent
            THEN \* sendall raises OSError
                 /\ calls' = [calls EXCEPT ![c] =
                       [call EXCEPT !.pc = "done", !.ended = "senderror",
                          !.raised = ExecuteRaises("OSError"),
                          !.sandboxRaised =
                              RunCommandRaises(ExecuteRaises("OSError"))]]
                 /\ UNCHANGED <<wire, stdin, written>>
            ELSE /\ calls' = [calls EXCEPT ![c] =
                       [call EXCEPT !.pc = "reading", !.wrote = TRUE]]
                 /\ wire' = IF stream = "open"
                            THEN wire \o Tag(TtyEcho(FullCommand(
                                                 Commands[cmd].text)),
                                             issued + 1, "echo")
                            ELSE wire
                 /\ stdin' = IF stream = "open"
                             THEN Append(stdin, [id |-> issued + 1,
                                                 cmd |-> cmd])
                             ELSE stdin
                 /\ written' = Append(written, issued + 1)
    /\ UNCHANGED <<running, zombies, timedOut, callers, stream, attach>>
    /\ UNCHANGED NotSession

RunCommand ==
    \E c \in callers, cmd \in inputs.cmds, t \in inputs.timeouts :
        Execute(c, cmd, t)

\* socket.recv(4096) returns the bytes that have arrived to the read loop
\* of caller c
Recv ==
    \E c \in callers :
        /\ calls[c].pc = "reading"
        /\ wire /= <<>>
        /\ calls' = [calls EXCEPT ![c] =
              [ReadChunk(calls[c], wire) EXCEPT !.completed =
                  \A i \in 1..Len(stdin) : stdin[i].id /= calls[c].id]]
        /\ wire' = <<>>
        /\ UNCHANGED <<stdin, running, zombies, issued, written, timedOut,
                       overlapped, callers, stream, attach>>
        /\ UNCHANGED NotSession

\* asyncio.wait_for cancels the read of caller c at its timeout; the recv
\* it was waiting for goes on in its worker thread when the socket blocks
Timeout ==
    \E c \in callers, z \in {0, 1} :
        /\ calls[c].pc = "reading"
        /\ calls[c].timeout > 0
        /\ calls' = [calls EXCEPT ![c] =
              [@ EXCEPT !.pc = "done", !.ended = "timeout",
                 !.buffer = <<>>, !.command_sent = FALSE,
                 !.result_lines = <<>>,
                 !.raised = ExecuteRaises("asyncio.TimeoutError"),
                 !.sandboxRaised =
                     RunCommandRaises(ExecuteRaises("asyncio.TimeoutError"))]]
        /\ zombies' = zombies + z
        /\ timedOut' = TRUE
        /\ UNCHANGED <<wire, stdin, running, issued, written, overlapped,
                       callers, stream, attach>>
        /\ UNCHANGED NotSession

\* the recv of a cancelled read returns: its bytes are dropped
ZombieRecv ==
    /\ zombies > 0
    /\ wire /= <<>>
    /\ zombies' = zombies - 1
    /\ wire' = <<>>
    /\ UNCHANGED <<calls, stdin, running, issued, written, timedOut,
                   overlapped, callers, stream, attach>>
    /\ UNCHANGED NotSession

\* what bash writes when it starts on the tty, before its first prompt: two
\* warning lines
Startup ==
    [text |-> <<>>,
     segs |-> << <<"w", "CR", "LF">>, <<"j", "CR", "LF">> >>, ok |-> FALSE]

\* what bash runs for an entry of stdin: command 0 is its own start
Program(cmd) == IF cmd = 0 THEN Startup ELSE Commands[cmd]

\* bash runs the command lines it was sent one after the other: the one at
\* the head of stdin writes its next piece of output
ShellEmit ==
    /\ stdin /= <<>>
    /\ running <= Len(Program(Head(stdin).cmd).segs)
    /\ wire' = wire \o Tag(Program(Head(stdin).cmd).segs[running],
                          Head(stdin).id, "out")
    /\ running' = running + 1
    /\ UNCHANGED <<calls, stdin, zombies, issued, written, timedOut,
                   overlapped, callers, stream, attach>>
    /\ UNCHANGED NotSession

\* the command at the head of stdin ends: "&& echo $?" prints 0 after a
\* success, and bash prints its prompt
ShellDone ==
    /\ stdin /= <<>>
    /\ running > Len(Program(Head(stdin).cmd).segs)
    /\ wire' = wire
         \o (IF Program(Head(stdin).cmd).ok
             THEN Tag(<<"0", "CR", "LF">>, Head(stdin).id, "code") ELSE <<>>)
         \o Tag(PROMPT, Head(stdin).id, "prompt")
    /\ stdin' = Tail(stdin)
    /\ running' = 1
    /\ UNCHANGED <<calls, zombies, issued, written, timedOut, overlapped,
                   callers, stream, attach>>
    /\ UNCHANGED NotSession

\* The mutant: a handshake that returns at the first bytes it receives.
HandshakeDoneAtFirstBytes(buffer) == buffer /= <<>>

\* _read_until_prompt's loop condition: b"$ " in buffer ends the loop
HandshakeDone(buffer) == Contains(Ch(buffer), PROMPT)

\* DockerSession.create's handshake receives the bytes that have arrived
AttachRecv ==
    /\ attach.pc = "reading"
    /\ wire /= <<>>
    /\ attach' = [attach EXCEPT
                     !.pc = IF HandshakeDone(attach.buffer \o wire)
                            THEN "done" ELSE "reading",
                     !.buffer = attach.buffer \o wire]
    /\ wire' = <<>>
    /\ UNCHANGED <<calls, stdin, running, zombies, issued, written, timedOut,
                   overlapped, callers, stream>>
    /\ UNCHANGED NotSession

\* The mutant: a read loop that ends normally at the end of the stream.
AtEndOfStreamBreaks(buffer) == TRUE

\* read_output on an empty chunk: whether the loop breaks (it raises
\* "Socket closed unexpectedly" otherwise)
AtEndOfStream(buffer) == EndsWith(Ch(buffer), PROMPT)

\* socket.recv(4096) returns b"" to the read loop of caller c: the stream
\* has ended and every byte sent before has been received.  The loop's
\* locals are kept as they were when it ended.
RecvEof ==
    \E c \in callers :
        /\ calls[c].pc = "reading"
        /\ wire = <<>>
        /\ stream = "eof"
        /\ calls' = [calls EXCEPT ![c] =
              IF AtEndOfStream(calls[c].buffer)
              THEN [@ EXCEPT !.pc = "done", !.ended = "break",
                             !.atEof = TRUE,
                             !.result = Output(calls[c].result_lines)]
              ELSE [@ EXCEPT !.pc = "done", !.ended = "eof",
                             !.atEof = TRUE,
                             !.raised = ExecuteRaises("RuntimeError"),
                             !.sandboxRaised =
                                 RunCommandRaises(ExecuteRaises("RuntimeError"))]]
        /\ UNCHANGED <<wire, stdin, running, zombies, issued, written,
                       timedOut, overlapped, callers, stream, attach>>
        /\ UNCHANGED NotSession

\* bash exits or the container stops: the container's end of the stream is
\* closed; what was sent before can still be received
\* _read_until_prompt receives the empty chunk of a closed stream: the
\* chunk is skipped and the loop, which tests only for the prompt, goes on
AttachRecvEof ==
    /\ attach.pc = "reading"
    /\ wire = <<>>
    /\ stream = "eof"
    /\ attach' = [attach EXCEPT !.atEof = TRUE]
    /\ UNCHANGED <<calls, wire, stdin, running, zombies, issued, written,
                   timedOut, overlapped, callers, stream>>
    /\ UNCHANGED NotSession

StreamEnds ==
    /\ stream = "open"
    /\ stream' = "eof"
    /\ stdin' = <<>>
    /\ running' = 1
    /\ UNCHANGED <<calls, wire, zombies, issued, written, timedOut,
                   overlapped, callers, attach>>
    /\ UNCHANGED NotSession

\* the stream after DockerSession.close: "exit" makes bash leave, close()
\* closes the socket; when close() raises the socket may be closed or not
StreamAfterClose(obj, cf) ==
    IF ~obj.session \/ ~obj.socket THEN {stream}
    ELSE IF "sockclose" \notin cf THEN {"closed"}
    ELSE {"closed", "eof"}

\* AsyncDockerizedTerminal.close, called between commands
TerminalClose ==
    \E f \in PossibleFailures(sb) \cap inputs.failures :
        /\ attach.pc = "done"
        /\ \A c \in callers : calls[c].pc /= "reading"
        /\ sb' = IF sb.session THEN SessionClose(sb, f.close) ELSE sb
        /\ stream' \in StreamAfterClose(sb, f.close)
        /\ stdin' = IF sb.session /\ sb.socket THEN <<>> ELSE stdin
        /\ running' = IF sb.session /\ sb.socket THEN 1 ELSE running
        /\ lastOp' =
             [NoOp EXCEPT
                !.op = "close",
                !.raised = IF TerminalCloseRaises(sb, f.close)
                           THEN "close error" ELSE "none",
                !.before = sb,
                !.calls = (IF sb.session /\ sb.socket
                           THEN <<"sendall", "shutdown", "sockclose">>
                           ELSE <<>>)
                          \o (IF sb.session /\ sb.exec_id
                                 /\ ~(sb.socket /\ "sockclose" \in f.close)
                              THEN <<"exec_inspect">> ELSE <<>>),
                !.repeat = (lastOp.op = "close")]
        /\ UNCHANGED <<engine, hostDirs, held, nCreates>>
        /\ UNCHANGED <<calls, wire, zombies, issued, written, timedOut,
                       overlapped, callers, attach>>
        /\ UNCHANGED <<fileVars, toolVars>>

(***************************************************************************)
(* File transfer: DockerSandbox.write_file / read_file against the         *)
(* container's file system.                                                *)
(***************************************************************************)
LastSlash(path) ==
    LET at == { i \in 1..Len(path) : path[i] = "/" }
    IN IF at = {} THEN 0 ELSE CHOOSE i \in at : \A j \in at : i >= j

\* os.path.basename
Basename(path) == SubSeq(path, LastSlash(path) + 1, Len(path))

\* os.path.dirname
Dirname(path) ==
    LET head == SubSeq(path, 1, LastSlash(path))
        keep == { i \in 1..Len(head) : head[i] /= "/" }
    IN IF keep = {} THEN head
       ELSE SubSeq(head, 1, CHOOSE i \in keep : \A j \in keep : i >= j)

\* os.path.isabs
IsAbs(path) == StartsWith(path, <<"/">>)

\* os.path.join(a, path)
PathJoin(a, path) ==
    IF IsAbs(path) THEN path
    ELSE IF a = <<>> \/ EndsWith(a, <<"/">>) THEN a \o path
    ELSE a \o <<"/">> \o path

\* The mutant: the path as a whole compared with "..".
HasDotDotWhole(path) == path = <<".", ".">>

\* ".." in path.split("/")
HasDotDot(path) ==
    \E i \in 1..Len(Split(path, "/")) : Split(path, "/")[i] = <<".", ".">>

\* The mutant: every path joined to the working directory.
SafeResolveJoinsAll(path) == WORK_DIR \o <<"/">> \o path

\* _safe_resolve_path, for a path it accepts
SafeResolve(path) == PathJoin(WORK_DIR, path)

\* what _safe_resolve_path has returned to an operation given path: nothing
\* when it raised
Resolved(path) == IF HasDotDot(path) THEN <<>> ELSE SafeResolve(path)

\* mkdir -p d: makes d and its missing ancestors unless one is a file
MkdirP(dirs, files, d) ==
    IF \E q \in Prefixes(d) : q \in DOMAIN files THEN dirs
    ELSE dirs \cup Prefixes(d)

RECURSIVE MkdirAll(_, _, _)
MkdirAll(dirs, files, args) ==
    IF args = <<>> THEN dirs
    ELSE MkdirAll(MkdirP(dirs, files, Norm(PathJoin(WORK_DIR, Head(args)))),
                  files, Tail(args))

\* the command line write_file has the session run
MkdirCommand(parent) ==
    <<"m", "k", "d", "i", "r", " ", "-", "p", " ">> \o parent

\* what bash makes of it: the words after "mkdir -p", each a directory to
\* make (a relative one under the shell's directory, the working directory)
ShellMkdir(dirs, files, command) ==
    LET words == SelectSeq(Split(command, " "), LAMBDA w : w /= <<>>)
    IN MkdirAll(dirs, files, SubSeq(words, 3, Len(words)))

\* str.encode("utf-8"): one byte for an ASCII character, two for "é"
RECURSIVE Utf8Encode(_)
Utf8Encode(text) ==
    IF text = <<>> THEN <<>>
    ELSE (IF Head(text) = "é" THEN <<"C3", "A9">> ELSE <<Head(text)>>)
         \o Utf8Encode(Tail(text))

RECURSIVE Utf8Decode(_)
\* bytes.decode("utf-8"); <<"invalid">> stands for UnicodeDecodeError
Utf8Decode(bytes) ==
    IF bytes = <<>> THEN <<>>
    ELSE IF Head(bytes) = "C3"
         THEN IF Len(bytes) >= 2 /\ bytes[2] = "A9"
              THEN <<"é">> \o Utf8Decode(SubSeq(bytes, 3, Len(bytes)))
              ELSE <<"invalid">>
    ELSE IF Head(bytes) = "A9" THEN <<"invalid">>
    ELSE <<Head(bytes)>> \o Utf8Decode(Tail(bytes))

\* _create_tar_stream: one entry, its size the number of bytes
CreateTarStream(name, bytes) ==
    [name |-> name, size |-> Len(bytes), data |-> bytes]

\* _read_from_tar: the content of the first member
ReadFromTar(tar) == SubSeq(tar.data, 1, tar.size)

\* host: the host path of a copy; sessionCmds: the commands the operation
\* had the session run; srcKind, fresh: what the copy before it copied and
\* whether the host destination was a new, empty one
NoFileOp ==
    [op |-> "none", path |-> <<>>, content |-> <<>>, raised |-> "none",
     result |-> <<>>, wrote |-> FALSE, engineCalls |-> 0,
     host |-> "none", sessionCmds |-> 0, srcKind |-> "none",
     fresh |-> FALSE, ready |-> TRUE, resolved |-> <<>>]

\* write_file(path, content): [raised, dirs, files, engineCalls]
WriteFile(path, content, dirs, files) ==
    LET resolved == SafeResolve(path)
        parent   == Dirname(resolved)
        command  == MkdirCommand(parent)
        dirs1    == IF parent /= <<>> THEN ShellMkdir(dirs, files, command)
                    ELSE dirs
        tar      == CreateTarStream(Basename(path), Utf8Encode(content))
        into     == Norm(IF parent /= <<>> THEN parent ELSE <<"/">>)
        target   == into \o Norm(tar.name)
        sent     == IF parent /= <<>> THEN 1 ELSE 0
        fail(calls_) == [raised |-> "RuntimeError", dirs |-> dirs,
                         files |-> files, engineCalls |-> calls_,
                         sessionCmds |-> 0]
    IN IF HasDotDot(path) THEN fail(0)
       ELSE IF parent /= <<>> /\ IsRisky(command) THEN fail(0)
       ELSE IF into \notin dirs1 \/ target \in dirs1 \/ target = into
            THEN \* put_archive fails: no such directory, or the entry
                 \* cannot replace a directory
                 [raised |-> "RuntimeError", dirs |-> dirs1, files |-> files,
                  engineCalls |-> 1, sessionCmds |-> sent]
       ELSE [raised |-> "none", dirs |-> dirs1,
             files |-> (target :> ReadFromTar(tar)) @@ files,
             engineCalls |-> 1, sessionCmds |-> sent]

\* read_file's except clauses: what it raises for exc
ReadFileRaises(exc) ==
    IF exc = "NotFound" THEN "FileNotFoundError" ELSE "RuntimeError"

\* read_file(path): [raised, result]
ReadFile(path, dirs, files) ==
    LET target == Norm(SafeResolve(path))
    IN IF HasDotDot(path)
       THEN [raised |-> "RuntimeError", result |-> <<>>, engineCalls |-> 0]
       ELSE IF target \in DOMAIN files
            THEN IF Utf8Decode(files[target]) = <<"invalid">>
                 THEN [raised |-> "RuntimeError", result |-> <<>>,
                       engineCalls |-> 1]
                 ELSE [raised |-> "none",
                       result |-> Utf8Decode(files[target]),
                       engineCalls |-> 1]
       ELSE IF target \in dirs
            THEN \* the archive's first member is the directory itself
                 [raised |-> "RuntimeError", result |-> <<>>,
                  engineCalls |-> 1]
       ELSE [raised |-> ReadFileRaises("NotFound"), result |-> <<>>,
             engineCalls |-> 1]

\* the paths and the contents given to the file operations
Paths ==
    { <<"/", "w", "o", "r", "k", "s", "p", "a", "c", "e", "/", "f">>,
      <<"f">>,
      <<"d", "/", "g">>,
      <<"a", " ", "b", "/", "f">>,
      <<".", ".", "/", "f">> }

Contents == { <<"h", "i">>, <<"é">> }

(***************************************************************************)
(* copy_to / copy_from between the host and the container.  A host path    *)
(* holds [kind, files]: kind is "dir", "file" or "absent"; files maps the  *)
(* relative path of each file below it (<<>> for the file itself) to its   *)
(* bytes.                                                                  *)
(***************************************************************************)
HostPaths == {"D", "s", "E", "none", "F", "new"}

\* what copy_to is given to copy, and where copy_from is told to copy to
HostSources == {"D", "s", "E", "none"}
HostDests == {"F", "new"}

\* a directory tree D, a file s, two empty directories E and F and two
\* paths that do not exist
HostStart ==
    [h \in HostPaths |->
        CASE h = "D" ->
                [kind |-> "dir",
                 files |-> (<< <<"x">> >> :> <<"h", "i">>)
                           @@ (<< <<"s">>, <<"y">> >> :> <<"C3", "A9">>)]
          [] h = "s" -> [kind |-> "file", files |-> (<<>> :> <<"h", "i">>)]
          [] h \in {"E", "F"} -> [kind |-> "dir", files |-> NoFiles]
          [] OTHER   -> [kind |-> "absent", files |-> NoFiles]]

IsPrefix(q, t) == Len(q) <= Len(t) /\ SubSeq(t, 1, Len(q)) = q

\* an entry cannot be extracted over what is there: it would replace a
\* directory by a file, or it lies below a file
Blocked(isDir, isFile, targets) ==
    \E t \in targets :
        \/ isDir[t]
        \/ \E q \in Prefixes(t) \ {t} : isFile[q]

\* container.put_archive(into, tar): the entries (relative path -> bytes)
\* extracted below directory into, missing directories made on the way.
\* The call fails as a whole when into does not exist or an entry cannot
\* be extracted.
PutArchive(dirs, files, into, entries) ==
    LET targets == { into \o e : e \in DOMAIN entries }
        bad == \/ into \notin dirs
               \/ into \in targets
               \/ Blocked([t \in targets |-> t \in dirs],
                          [q \in UNION { Prefixes(t) : t \in targets } |->
                              q \in DOMAIN files],
                          targets)
    IN IF bad THEN [ok |-> FALSE, dirs |-> dirs, files |-> files]
       ELSE [ok |-> TRUE,
             dirs |-> dirs \cup UNION { Prefixes(t) \ {t} : t \in targets },
             files |-> [t \in DOMAIN files \cup targets |->
                          IF t \in targets
                          THEN entries[SubSeq(t, Len(into) + 1, Len(t))]
                          ELSE files[t]]]

\* container.get_archive(path): the archive of a file holds one member named
\* by the file's base name; the archive of a directory holds the directory
\* and everything below it, each name starting with the directory's name
GetArchive(dirs, files, target) ==
    LET name  == IF target = <<>> THEN <<>> ELSE <<target[Len(target)]>>
        below == { k \in DOMAIN files : IsPrefix(target, k) }
        sub   == { d \in dirs : IsPrefix(target, d) }
    IN IF target \in DOMAIN files
       THEN [found |-> TRUE, isDir |-> FALSE, count |-> 1,
             members |-> (name :> files[target])]
       ELSE IF target \in dirs
       THEN [found |-> TRUE, isDir |-> TRUE,
             count |-> Cardinality(sub) + Cardinality(below),
             members |->
                [m \in { name \o SubSeq(k, Len(target) + 1, Len(k)) :
                            k \in below } |->
                    files[target \o SubSeq(m, Len(name) + 1, Len(m))]]]
       ELSE [found |-> FALSE, isDir |-> FALSE, count |-> 0,
             members |-> NoFiles]

\* f"test -e {resolved_dst}"
TestCommand(resolved) == <<"t", "e", "s", "t", " ", "-", "e", " ">> \o resolved

\* The mutant: every failure of copy_from reported as a RuntimeError.
CopyFromRaisesGeneric(exc) == "RuntimeError"

\* copy_from's except clauses: what it raises for exc
CopyFromRaises(exc) ==
    IF exc = "NotFound" THEN "FileNotFoundError" ELSE "RuntimeError"

\* DockerSandbox.copy_from(path, dst); has: self.container is set
CopyFrom(path, dst, has, dirs, files, host) ==
    LET node == host[dst]
        a    == GetArchive(dirs, files, Norm(SafeResolve(path)))
        res(raised, node1, calls_) ==
            [raised |-> raised, host |-> [host EXCEPT ![dst] = node1],
             engineCalls |-> calls_]
    IN IF HasDotDot(path) THEN res("RuntimeError", node, 0)
       ELSE IF ~has
            THEN \* None has no get_archive: AttributeError, wrapped
                 res("RuntimeError", node, 0)
       ELSE IF ~a.found THEN res(CopyFromRaises("NotFound"), node, 1)
       ELSE IF node.kind = "dir"
            THEN \* tar.extractall(dst_path)
                 IF Blocked([t \in DOMAIN a.members |->
                                \E k \in DOMAIN node.files :
                                    k /= t /\ IsPrefix(t, k)],
                            [q \in UNION { Prefixes(t) :
                                            t \in DOMAIN a.members } |->
                                q \in DOMAIN node.files],
                            DOMAIN a.members)
                 THEN res("RuntimeError", node, 1)
                 ELSE res("none", [node EXCEPT !.files = a.members @@ @], 1)
       ELSE IF a.count > 1 THEN res("RuntimeError", node, 1)
       ELSE IF a.isDir
            THEN \* open(dst_path, "wb") has made the file when extractfile
                 \* returns None for the directory
                 res("RuntimeError",
                     [kind |-> "file", files |-> (<<>> :> <<>>)], 1)
       ELSE res("none",
                [kind |-> "file",
                 files |-> (<<>> :> a.members[CHOOSE m \in DOMAIN a.members :
                                                 TRUE])], 1)

\* DockerSandbox.copy_to(src, path); has: self.terminal is set
CopyTo(src, path, has, dirs, files, host) ==
    LET tree     == host[src].files
        resolved == SafeResolve(path)
        parent   == Dirname(resolved)
        command  == MkdirCommand(parent)
        dirs1    == IF parent /= <<>> THEN ShellMkdir(dirs, files, command)
                    ELSE dirs
        base     == Norm(Basename(path))
        \* arcname: os.path.basename(dst_path), joined with the path of the
        \* file relative to src_path when src_path is a directory
        entries  == IF host[src].kind = "dir"
                    THEN [e \in { base \o r : r \in DOMAIN tree } |->
                            tree[SubSeq(e, Len(base) + 1, Len(e))]]
                    ELSE (base :> tree[<<>>])
        into     == Norm(IF parent /= <<>> THEN parent ELSE <<"/">>)
        put      == PutArchive(dirs1, files, into, entries)
        sent     == IF parent /= <<>> THEN 1 ELSE 0
        res(raised, d, f, calls_, cmds) ==
            [raised |-> raised, dirs |-> d, files |-> f,
             engineCalls |-> calls_, sessionCmds |-> cmds]
    IN IF host[src].kind = "absent"
       THEN res("FileNotFoundError", dirs, files, 0, 0)
       ELSE IF HasDotDot(path) THEN res("RuntimeError", dirs, files, 0, 0)
       ELSE IF parent /= <<>> /\ (~has \/ IsRisky(command))
            THEN \* run_command raises before anything is sent
                 res("RuntimeError", dirs, files, 0, 0)
       ELSE IF ~put.ok THEN res("RuntimeError", dirs1, files, 1, sent)
       ELSE IF ~has \/ IsRisky(TestCommand(resolved))
            THEN res("RuntimeError", put.dirs, put.files, 1, sent)
       ELSE \* "test -e" is run; its exit status is not looked at
            res("none", put.dirs, put.files, 1, sent + 1)

\* the sandbox the facade holds has a container: the checks of
\* LocalSandboxClient and of DockerSandbox.read_file / write_file pass
Ready == held /\ sb.container /= 0

\* write_file called through LocalSandboxClient
SandboxWriteFile ==
    \E path \in inputs.paths, content \in inputs.contents :
        LET r == WriteFile(path, content, fsDirs, fsFiles)
        IN /\ fsDirs' = IF Ready THEN r.dirs ELSE fsDirs
           /\ fsFiles' = IF Ready THEN r.files ELSE fsFiles
           /\ fileOp' =
                [NoFileOp EXCEPT
                    !.op = "write", !.path = path, !.content = content,
                    !.ready = Ready,
                    !.resolved = IF Ready THEN Resolved(path) ELSE <<>>,
                    !.raised = IF Ready THEN r.raised ELSE NotInitialized,
                    !.engineCalls = IF Ready THEN r.engineCalls ELSE 0,
                    !.sessionCmds = IF Ready THEN r.sessionCmds ELSE 0]
           /\ UNCHANGED <<hostFs, inputs>>
           /\ UNCHANGED NotFiles

\* read_file called through LocalSandboxClient
SandboxReadFile ==
    \E path \in inputs.paths :
        LET r == ReadFile(path, fsDirs, fsFiles)
        IN /\ fileOp' =
                [NoFileOp EXCEPT
                    !.op = "read", !.path = path, !.ready = Ready,
                    !.resolved = IF Ready THEN Resolved(path) ELSE <<>>,
                    !.content = fileOp.content,
                    !.raised = IF Ready THEN r.raised ELSE NotInitialized,
                    !.result = IF Ready THEN r.result ELSE <<>>,
                    !.wrote = (fileOp.op = "write"
                               /\ fileOp.raised = "none"
                               /\ fileOp.path = path),
                    !.engineCalls = IF Ready THEN r.engineCalls ELSE 0]
           /\ UNCHANGED <<fsDirs, fsFiles, hostFs, inputs>>
           /\ UNCHANGED NotFiles

\* copy_to called through LocalSandboxClient
SandboxCopyTo ==
    \E src \in inputs.sources, path \in inputs.paths :
        LET r == CopyTo(src, path, sb.terminal, fsDirs, fsFiles, hostFs)
        IN /\ fsDirs' = IF held THEN r.dirs ELSE fsDirs
           /\ fsFiles' = IF held THEN r.files ELSE fsFiles
           /\ fileOp' =
                [NoFileOp EXCEPT
                    !.op = "copy_to", !.path = path, !.host = src,
                    !.ready = Ready,
                    !.content = hostFs[src].files,
                    !.srcKind = hostFs[src].kind,
                    !.raised = IF held THEN r.raised ELSE NotInitialized,
                    !.engineCalls = IF held THEN r.engineCalls ELSE 0,
                    !.sessionCmds = IF held THEN r.sessionCmds ELSE 0]
           /\ UNCHANGED <<hostFs, inputs>>
           /\ UNCHANGED NotFiles

\* copy_from called through LocalSandboxClient
SandboxCopyFrom ==
    \E path \in inputs.paths, dst \in inputs.dests :
        LET r == CopyFrom(path, dst, sb.container /= 0, fsDirs, fsFiles,
                          hostFs)
        IN /\ hostFs' = IF held THEN r.host ELSE hostFs
           /\ fileOp' =
                [NoFileOp EXCEPT
                    !.op = "copy_from", !.path = path, !.host = dst,
                    !.ready = Ready,
                    !.content = fileOp.content,
                    !.srcKind = fileOp.srcKind,
                    !.wrote = (fileOp.op = "copy_to"
                               /\ fileOp.raised = "none"
                               /\ fileOp.path = path),
                    !.fresh = (hostFs[dst].files = NoFiles),
                    !.raised = IF held THEN r.raised ELSE NotInitialized,
                    !.engineCalls = IF held THEN r.engineCalls ELSE 0]
           /\ UNCHANGED <<fsDirs, fsFiles, inputs>>
           /\ UNCHANGED NotFiles

\* a new container's file system, and the host before any copy
FsIdle ==
    /\ fsDirs = Prefixes(Norm(WORK_DIR))
    /\ fsFiles = [q \in {} |-> <<>>]
    /\ hostFs = HostStart
    /\ fileOp = NoFileOp

\* a caller that writes and reads files and runs commands
FileInputs ==
    [paths |-> Paths, contents |-> Contents, sources |-> {}, dests |-> {},
     cmds |-> CommandIds, failAts |-> FailPoints,
     failures |-> CleanupFailures, timeouts |-> {0}, config_timeout |-> 0]

\* a caller that also copies between the host and the container
CopyInputs ==
    [paths |-> { <<"f">>, <<"d", "/", "g">>, <<".", ".", "/", "f">> },
     contents |-> { <<"h", "i">> },
     sources |-> HostSources, dests |-> HostDests, cmds |-> CommandIds,
     failAts |-> FailPoints, failures |-> CleanupFailures,
     timeouts |-> {0}, config_timeout |-> 0]

FilesIdle == FsIdle /\ inputs = FileInputs

\* a caller that creates and cleans up its sandbox between its calls, with
\* an engine that at times fails to start the container it has created
FacadeInputs ==
    [paths |-> { <<"f">> }, contents |-> { <<"h", "i">> },
     sources |-> {"s"}, dests |-> {"new"}, cmds |-> {1},
     failAts |-> {0, 5}, failures |-> {NoFailure},
     timeouts |-> {0}, config_timeout |-> 0]


(***************************************************************************)
(* The Bash tool (app/tool/bash.py): one _BashSession at a time, a bash     *)
(* process with pipes, and the execute calls made one after the other.     *)
(* A byte in a pipe is a record [ch, src]: the character and the number of *)
(* the execute call whose command wrote it; the sentinel "<<exit>>" is one *)
(* symbol.                                                                 *)
(***************************************************************************)
SENTINEL == "<<exit>>"

\* the commands given to the tool: what each writes before it ends, and
\* what a job it leaves in the background writes later
BashCommands ==
    << \* echo a
       [segs |-> << [to |-> "stdout", text |-> <<"a", "LF">>] >>,
        bg |-> <<>>],
       \* ls x: an error message
       [segs |-> << [to |-> "stderr", text |-> <<"e", "LF">>] >>,
        bg |-> <<>>],
       \* (sleep 1; echo b) &
       [segs |-> <<>>, bg |-> <<"b", "LF">>] >>

\* 0 stands for command = None
BashCommandIds == 0..Len(BashCommands)

NoBashCall ==
    [pc |-> "idle", id |-> 0, cmd |-> 0, restart |-> FALSE,
     kind |-> "none", message |-> "none", output |-> <<>>, error |-> <<>>,
     wrote |-> FALSE, afterTimeout |-> FALSE, session |-> 0]

\* Bash._session is None
NewBash ==
    [session |-> 0, started |-> FALSE, timed_out |-> FALSE, alive |-> FALSE,
     pstdin |-> <<>>, step |-> 1, jobs |-> <<>>,
     stdout |-> <<>>, stderr |-> <<>>, call |-> NoBashCall, runs |-> 0]

\* _BashSession() and start(): a new bash process with empty pipes
StartedSession(b) ==
    [b EXCEPT !.session = b.session + 1, !.started = TRUE,
              !.timed_out = FALSE, !.alive = TRUE, !.pstdin = <<>>,
              !.step = 1, !.jobs = <<>>, !.stdout = <<>>, !.stderr = <<>>]

\* The mutant: a run that goes on after a timeout of the session.
RunRefusesNever(b) == "write"

\* _BashSession.run's checks before it writes: what it does
RunRefuses(b) ==
    IF ~b.started THEN "not started"
    ELSE IF ~b.alive THEN "exited"
    ELSE IF b.timed_out THEN "timed out"
    ELSE "write"

\* _BashSession.run(command) up to its read loop, as call
Run(b, call) ==
    LET c == [call EXCEPT !.session = b.session]
    IN CASE RunRefuses(b) = "not started" ->
              [b EXCEPT !.call = [c EXCEPT !.pc = "done",
                                    !.kind = "ToolError",
                                    !.message = "not started"]]
         [] RunRefuses(b) = "exited" ->
              [b EXCEPT !.call = [c EXCEPT !.pc = "done",
                                    !.kind = "ToolResult",
                                    !.message = "exited"]]
         [] RunRefuses(b) = "timed out" ->
              [b EXCEPT !.call = [c EXCEPT !.pc = "done",
                                    !.kind = "ToolError",
                                    !.message = "timed out"]]
         [] OTHER ->
              [b EXCEPT !.pstdin = IF b.alive
                                   THEN Append(@, [id |-> c.id, cmd |-> c.cmd])
                                   ELSE @,
                        !.call = [c EXCEPT !.pc = "polling", !.wrote = TRUE]]

\* Bash.execute(command, restart), up to the read loop of run
BashExecute ==
    \E cmd \in BashCommandIds, restart \in BOOLEAN :
        /\ bash.call.pc /= "polling"
        /\ bash.runs < MaxBashRuns
        /\ LET id   == bash.runs + 1
               call == [NoBashCall EXCEPT
                          !.id = id, !.cmd = cmd, !.restart = restart,
                          \* run is called on a session that has timed out
                          !.afterTimeout = (~restart /\ cmd /= 0
                                            /\ bash.session /= 0
                                            /\ bash.timed_out)]
               b0   == [bash EXCEPT !.runs = id]
           IN bash' =
                IF restart
                THEN \* stop() terminates the old process
                     [StartedSession(b0) EXCEPT
                        !.call = [call EXCEPT !.pc = "done",
                                    !.kind = "ToolResult",
                                    !.message = "restarted",
                                    !.session = b0.session + 1]]
                ELSE LET b1 == IF b0.session = 0 THEN StartedSession(b0)
                               ELSE b0
                     IN IF cmd = 0
                        THEN [b1 EXCEPT
                                !.call = [call EXCEPT !.pc = "done",
                                            !.kind = "ToolError",
                                            !.message = "no command",
                                            !.session = b1.session]]
                        ELSE Run(b1, call)
        /\ UNCHANGED <<agent, planning, flow, pyexec>>
        /\ UNCHANGED NotTools

\* output[: output.index(self._sentinel)]
BeforeSentinel(buffer) ==
    LET at == { i \in 1..Len(buffer) : buffer[i].ch = SENTINEL }
    IN SubSeq(buffer, 1, (CHOOSE i \in at : \A j \in at : i <= j) - 1)

\* if text.endswith("\n"): text = text[:-1]
DropLastLF(text) ==
    IF text /= <<>> /\ text[Len(text)].ch = "LF"
    THEN SubSeq(text, 1, Len(text) - 1) ELSE text

\* the read loop wakes from its sleep and finds the sentinel in the stdout
\* buffer: run returns, and both buffers are cleared
BashPoll ==
    /\ bash.call.pc = "polling"
    /\ \E i \in 1..Len(bash.stdout) : bash.stdout[i].ch = SENTINEL
    /\ bash' = [bash EXCEPT
                  !.call = [@ EXCEPT !.pc = "done", !.kind = "CLIResult",
                              !.output = DropLastLF(BeforeSentinel(bash.stdout)),
                              !.error = DropLastLF(bash.stderr)],
                  !.stdout = <<>>, !.stderr = <<>>]
    /\ UNCHANGED <<agent, planning, flow, pyexec>>
    /\ UNCHANGED NotTools

\* asyncio.timeout(self._timeout) fires in the read loop
BashTimeout ==
    /\ bash.call.pc = "polling"
    /\ bash' = [bash EXCEPT
                  !.timed_out = TRUE,
                  !.call = [@ EXCEPT !.pc = "done", !.kind = "ToolError",
                              !.message = "timed out"]]
    /\ UNCHANGED <<agent, planning, flow, pyexec>>
    /\ UNCHANGED NotTools

\* the text s written by the command of call id
FromCall(s, id) == [i \in 1..Len(s) |-> [ch |-> s[i], src |-> id]]

\* bash runs the command line at the head of its stdin: the command writes
\* its next piece to stdout or stderr
BashProcEmit ==
    /\ bash.alive /\ bash.pstdin /= <<>>
    /\ LET job  == Head(bash.pstdin)
           segs == BashCommands[job.cmd].segs
       IN /\ bash.step <= Len(segs)
          /\ bash' = IF segs[bash.step].to = "stdout"
                     THEN [bash EXCEPT
                             !.stdout = @ \o FromCall(segs[bash.step].text,
                                                      job.id),
                             !.step = @ + 1]
                     ELSE [bash EXCEPT
                             !.stderr = @ \o FromCall(segs[bash.step].text,
                                                      job.id),
                             !.step = @ + 1]
    /\ UNCHANGED <<agent, planning, flow, pyexec>>
    /\ UNCHANGED NotTools

\* the command has ended (a background job it started goes on) and bash
\* runs echo '<<exit>>'
BashProcDone ==
    /\ bash.alive /\ bash.pstdin /= <<>>
    /\ LET job == Head(bash.pstdin)
           cmd == BashCommands[job.cmd]
       IN /\ bash.step > Len(cmd.segs)
          /\ bash' = [bash EXCEPT
                        !.stdout = @ \o FromCall(<<SENTINEL, "LF">>, job.id),
                        !.jobs = IF cmd.bg /= <<>>
                                 THEN Append(@, FromCall(cmd.bg, job.id))
                                 ELSE @,
                        !.pstdin = Tail(@),
                        !.step = 1]
    /\ UNCHANGED <<agent, planning, flow, pyexec>>
    /\ UNCHANGED NotTools

\* a background job writes to the stdout it has inherited
BashJobEmit ==
    /\ bash.jobs /= <<>>
    /\ bash' = [bash EXCEPT !.stdout = @ \o Head(bash.jobs),
                            !.jobs = Tail(@)]
    /\ UNCHANGED <<agent, planning, flow, pyexec>>
    /\ UNCHANGED NotTools

\* the bash process ends (it is killed, or a command made it exit):
\* returncode is set
BashProcExit ==
    /\ bash.alive
    /\ bash' = [bash EXCEPT !.alive = FALSE, !.pstdin = <<>>, !.step = 1]
    /\ UNCHANGED <<agent, planning, flow, pyexec>>
    /\ UNCHANGED NotTools

\* ---------------------------------------------------------------------
\* BaseAgent.run (app/agent/base.py) driving the step of a ToolCallAgent
\* (app/agent/react.py, app/agent/toolcall.py)

max_messages == 100
duplicate_threshold == 2

RunIds == 1..MaxRuns

\* request of a run call: "" stands for None and for the empty string
Requests == {"", "q"}

\* what the language model answers in think: some text, some tool calls
Responses ==
    { [content |-> "t", tools |-> <<>>],
      [content |-> "t", tools |-> <<"terminate">>],
      [content |-> "", tools |-> <<"bash">>],
      [content |-> "t", tools |-> <<"terminate", "bash">>] }

special_tool_names == {"terminate"}

Message(role, content) == [role |-> role, content |-> content]

\* next_step_prompt after k calls of handle_stuck_state
PromptText(k) == <<"n", "sn", "ssn", "sssn", "ssssn", "sssssn">>[k + 1]

\* Memory.add_message
add_message(memory, msg) ==
    LET m == Append(memory, msg)
    IN IF Len(m) > max_messages
       THEN SubSeq(m, Len(m) - max_messages + 1, Len(m))
       ELSE m

is_stuck(memory) ==
    IF Len(memory) < 2 THEN FALSE
    ELSE LET last == memory[Len(memory)]
         IN IF last.content = "" THEN FALSE
            ELSE Cardinality({ i \in 1..(Len(memory) - 1) :
                     /\ memory[i].role = "assistant"
                     /\ memory[i].content = last.content })
                 >= duplicate_threshold

\* what a caller can see of the agent
Seen(a) ==
    [state |-> a.state, current_step |-> a.current_step,
     memory |-> a.memory]

\* a call of run: where it is, what the agent looked like when it was made,
\* what state_context saved, how many step() calls it made and returned
\* from, the tool calls of the step still to execute, and how it ended
NoRun ==
    [pc |-> "idle", request |-> "", before |-> Seen([state |-> "IDLE",
         current_step |-> 0, memory |-> <<>>]),
     after |-> Seen([state |-> "IDLE", current_step |-> 0,
         memory |-> <<>>]),
     previous_state |-> "IDLE", steps |-> 0, results |-> 0,
     tool_calls |-> <<>>, finishedAt |-> 0, sawError |-> FALSE,
     terminated |-> FALSE, outcome |-> "none"]

NewAgent ==
    [state |-> "IDLE", current_step |-> 0, max_steps |-> MaxSteps,
     memory |-> <<>>, next_step_prompt |-> 0,
     runs |-> [r \in RunIds |-> NoRun]]

\* run accepts every call
RunRefusedNever(a) == FALSE

\* the first statement of run
RunRefused(a) == a.state /= "IDLE"

\* state_context is left: by the exception of the step (the except clause
\* sets ERROR, then the finally clause runs), or at the end of the loop
ExitContext(a, r, outcome) ==
    LET failed == outcome = "raised"
        b == IF failed THEN [a EXCEPT !.state = "ERROR"] ELSE a
        c == [b EXCEPT !.state = a.runs[r].previous_state]
    IN [c EXCEPT !.runs[r].pc = "done",
                 !.runs[r].outcome = outcome,
                 !.runs[r].sawError = failed,
                 !.runs[r].terminated =
                     ~failed /\ a.current_step >= a.max_steps,
                 !.runs[r].after = Seen(c)]

\* the loop goes on after a special tool has set FINISHED
LoopIgnoresFinished(a, r) ==
    IF a.current_step < a.max_steps
    THEN [a EXCEPT !.current_step = @ + 1,
                   !.runs[r].steps = @ + 1,
                   !.runs[r].pc = "think",
                   !.memory = Append(@, Message("user",
                                  PromptText(a.next_step_prompt)))]
    ELSE ExitContext(a, r, "returned")

\* the head of the while loop of run, up to the first await of the step:
\* think has put the prompt into the messages and waits for the model
Loop(a, r) ==
    IF a.current_step < a.max_steps /\ a.state /= "FINISHED"
    THEN [a EXCEPT !.current_step = @ + 1,
                   !.runs[r].steps = @ + 1,
                   !.runs[r].pc = "think",
                   !.memory = Append(@, Message("user",
                                  PromptText(a.next_step_prompt)))]
    ELSE ExitContext(a, r, "returned")

\* the rest of the loop body does not count the step
AfterStepForgetsStep(a, r) ==
    LET b == IF is_stuck(a.memory)
             THEN [a EXCEPT !.next_step_prompt = @ + 1]
             ELSE a
    IN Loop([b EXCEPT !.runs[r].results = @ + 1,
                      !.runs[r].tool_calls = <<>>,
                      !.current_step = 0], r)

\* step() has returned: the rest of the loop body, then the loop again
AfterStep(a, r) ==
    LET b == IF is_stuck(a.memory)
             THEN [a EXCEPT !.next_step_prompt = @ + 1]
             ELSE a
    IN Loop([b EXCEPT !.runs[r].results = @ + 1,
                      !.runs[r].tool_calls = <<>>], r)

\* BaseAgent.run is called
AgentRun ==
    \E r \in RunIds, request \in Requests :
        /\ agent.runs[r].pc = "idle"
        /\ \A q \in RunIds : q < r => agent.runs[q].pc /= "idle"
        /\ LET a == [agent EXCEPT !.runs[r].request = request,
                                  !.runs[r].before = Seen(agent)]
           IN IF RunRefused(agent)
              THEN agent' = [a EXCEPT !.runs[r].pc = "done",
                                !.runs[r].outcome = "RuntimeError",
                                !.runs[r].after = Seen(agent)]
              ELSE LET b == IF request /= ""
                            THEN [a EXCEPT !.memory = add_message(@,
                                      Message("user", request))]
                            ELSE a
                       c == [b EXCEPT !.runs[r].previous_state = b.state,
                                      !.state = "RUNNING"]
                   IN agent' = Loop(c, r)
        /\ UNCHANGED <<bash, planning, flow, pyexec>>
        /\ UNCHANGED NotTools

\* the language model answers the request of think, or the request fails
AgentThink ==
    \E r \in RunIds, failed \in BOOLEAN, response \in Responses :
        /\ agent.runs[r].pc = "think"
        /\ IF failed
           THEN /\ response = CHOOSE x \in Responses : TRUE
                /\ agent' = ExitContext(agent, r, "raised")
           ELSE LET a == [agent EXCEPT
                          !.memory = add_message(@,
                              Message("assistant", response.content)),
                          !.runs[r].tool_calls = response.tools]
                IN IF response.tools = <<>>
                   THEN agent' = AfterStep(a, r)
                   ELSE agent' = [a EXCEPT !.runs[r].pc = "act"]
        /\ UNCHANGED <<bash, planning, flow, pyexec>>
        /\ UNCHANGED NotTools

\* the tool call act is waiting for completes; a special tool ends the task
AgentAct ==
    \E r \in RunIds :
        /\ agent.runs[r].pc = "act"
        /\ LET name == Head(agent.runs[r].tool_calls)
               a == IF name \in special_tool_names
                    THEN [agent EXCEPT !.state = "FINISHED",
                              !.runs[r].finishedAt =
                                  agent.runs[r].steps]
                    ELSE agent
               b == [a EXCEPT !.memory = add_message(@,
                                  Message("tool", "o")),
                              !.runs[r].tool_calls = Tail(@)]
           IN IF b.runs[r].tool_calls = <<>>
              THEN agent' = AfterStep(b, r)
              ELSE agent' = b
        /\ UNCHANGED <<bash, planning, flow, pyexec>>
        /\ UNCHANGED NotTools


\* ---------------------------------------------------------------------
\* PlanningTool (app/tool/planning.py). None and the empty string, both
\* false in the tool's tests, are written "".

PlanIds == {"p1", "p2"}
Titles == {"T"}
StepTexts == {"a", "b"}
Statuses == {"not_started", "in_progress", "completed", "blocked"}

\* the lists of steps a caller gives; <<>> stands for no list
StepLists == UNION { [1..n -> StepTexts] : n \in 0..MaxPlanSteps }

NewPlanningTool == [plans |-> [p \in {} |-> <<>>], current |-> ""]

Repeat(x, n) == [i \in 1..n |-> x]

\* what a command gives back: the tool after it and whether it raised
Done(t) == [tool |-> t, raised |-> FALSE]
ToolError(t) == [tool |-> t, raised |-> TRUE]

\* plans[plan_id] = plan
Store(t, plan_id, plan) ==
    [t EXCEPT !.plans =
        [p \in DOMAIN t.plans \cup {plan_id} |->
            IF p = plan_id THEN plan ELSE t.plans[p]]]

CreatePlan(t, plan_id, title, steps) ==
    IF plan_id = "" THEN ToolError(t)
    ELSE IF plan_id \in DOMAIN t.plans THEN ToolError(t)
    ELSE IF title = "" THEN ToolError(t)
    ELSE IF steps = <<>> THEN ToolError(t)
    ELSE Done([Store(t, plan_id,
                   [title |-> title, steps |-> steps,
                    step_statuses |-> Repeat("not_started", Len(steps)),
                    step_notes |-> Repeat("", Len(steps))])
               EXCEPT !.current = plan_id])

\* update keeps the notes of the old plan and starts every step again
UpdatePlanKeepsNotes(t, plan_id, title, steps) ==
    IF plan_id = "" THEN ToolError(t)
    ELSE IF plan_id \notin DOMAIN t.plans THEN ToolError(t)
    ELSE LET plan == t.plans[plan_id]
             p1 == IF title /= "" THEN [plan EXCEPT !.title = title]
                   ELSE plan
             p2 == IF steps /= <<>>
                   THEN [p1 EXCEPT
                         !.steps = steps,
                         !.step_statuses =
                             Repeat("not_started", Len(steps))]
                   ELSE p1
         IN Done(Store(t, plan_id, p2))

UpdatePlan(t, plan_id, title, steps) ==
    IF plan_id = "" THEN ToolError(t)
    ELSE IF plan_id \notin DOMAIN t.plans THEN ToolError(t)
    ELSE LET plan == t.plans[plan_id]
             p1 == IF title /= "" THEN [plan EXCEPT !.title = title]
                   ELSE plan
             Same(i) == i <= Len(plan.steps) /\ steps[i] = plan.steps[i]
             p2 == IF steps /= <<>>
                   THEN [p1 EXCEPT
                         !.steps = steps,
                         !.step_statuses =
                             [i \in 1..Len(steps) |->
                                 IF Same(i) THEN plan.step_statuses[i]
                                 ELSE "not_started"],
                         !.step_notes =
                             [i \in 1..Len(steps) |->
                                 IF Same(i) THEN plan.step_notes[i]
                                 ELSE ""]]
                   ELSE p1
         IN Done(Store(t, plan_id, p2))

GetPlan(t, plan_id) ==
    LET id == IF plan_id = "" THEN t.current ELSE plan_id
    IN IF id = "" THEN ToolError(t)
       ELSE IF id \notin DOMAIN t.plans THEN ToolError(t)
       ELSE Done(t)

SetActivePlan(t, plan_id) ==
    IF plan_id = "" THEN ToolError(t)
    ELSE IF plan_id \notin DOMAIN t.plans THEN ToolError(t)
    ELSE Done([t EXCEPT !.current = plan_id])

\* step_index is 0-based; has_index is FALSE for None
MarkStep(t, plan_id, has_index, step_index, step_status, step_notes) ==
    LET id == IF plan_id = "" THEN t.current ELSE plan_id
    IN IF id = "" THEN ToolError(t)
       ELSE IF id \notin DOMAIN t.plans THEN ToolError(t)
       ELSE IF ~has_index THEN ToolError(t)
       ELSE IF step_index < 0 \/ step_index >= Len(t.plans[id].steps)
            THEN ToolError(t)
       ELSE IF step_status /= "" /\ step_status \notin Statuses
            THEN ToolError(t)
       ELSE LET plan == t.plans[id]
                p1 == IF step_status /= ""
                      THEN [plan EXCEPT
                            !.step_statuses[step_index + 1] = step_status]
                      ELSE plan
                p2 == IF step_notes /= ""
                      THEN [p1 EXCEPT
                            !.step_notes[step_index + 1] = step_notes]
                      ELSE p1
            IN Done(Store(t, id, p2))

DeletePlan(t, plan_id) ==
    IF plan_id = "" THEN ToolError(t)
    ELSE IF plan_id \notin DOMAIN t.plans THEN ToolError(t)
    ELSE LET u == [t EXCEPT !.plans =
                      [p \in DOMAIN t.plans \ {plan_id} |-> t.plans[p]]]
         IN Done(IF t.current = plan_id
                 THEN [u EXCEPT !.current = ""] ELSE u)

\* arguments a command does not read, left at their defaults
NoArgs ==
    [plan_id |-> "", title |-> "", steps |-> <<>>, has_index |-> FALSE,
     step_index |-> 0, step_status |-> "", step_notes |-> ""]

\* the calls of PlanningTool.execute a caller makes
PlanningCalls ==
    { [command |-> "list"] @@ NoArgs, [command |-> "other"] @@ NoArgs }
    \cup { [command |-> c, plan_id |-> p] @@ NoArgs :
             c \in {"get", "set_active", "delete"}, p \in PlanIds \cup {""} }
    \cup { [command |-> c, plan_id |-> p, title |-> ti, steps |-> st]
             @@ NoArgs :
             c \in {"create", "update"}, p \in PlanIds \cup {""},
             ti \in Titles \cup {""}, st \in StepLists }
    \cup { [command |-> "mark_step", plan_id |-> p,
            step_status |-> "completed"] @@ NoArgs :
             p \in PlanIds \cup {""} }
    \cup { [command |-> "mark_step", plan_id |-> p, has_index |-> TRUE,
            step_index |-> i, step_status |-> ss, step_notes |-> sn]
             @@ NoArgs :
             p \in PlanIds \cup {""}, i \in (-1)..MaxPlanSteps,
             ss \in {"", "completed", "done"}, sn \in {"", "n"} }

\* PlanningTool.execute
PlanningToolExecute(t, c) ==
    IF c.command = "create"
    THEN CreatePlan(t, c.plan_id, c.title, c.steps)
    ELSE IF c.command = "update"
    THEN UpdatePlan(t, c.plan_id, c.title, c.steps)
    ELSE IF c.command = "list" THEN Done(t)
    ELSE IF c.command = "get" THEN GetPlan(t, c.plan_id)
    ELSE IF c.command = "set_active" THEN SetActivePlan(t, c.plan_id)
    ELSE IF c.command = "mark_step"
    THEN MarkStep(t, c.plan_id, c.has_index, c.step_index,
                  c.step_status, c.step_notes)
    ELSE IF c.command = "delete" THEN DeletePlan(t, c.plan_id)
    ELSE ToolError(t)

\* a caller gives the planning tool a command
PlanningCommand ==
    \E c \in PlanningCalls :
        /\ planning' = PlanningToolExecute(planning, c).tool
        /\ UNCHANGED <<bash, agent, flow, pyexec>>
        /\ UNCHANGED NotTools

\* ---------------------------------------------------------------------
\* PlanningFlow (app/flow/planning.py) with one executor agent. The flow
\* reads the executor's state only; of the executor the model keeps its
\* class, state and step budget, and not its memory.

\* the plan _create_initial_plan falls back to
DefaultSteps == <<"a", "e", "v">>

\* a ToolCallAgent, or a PlanningAgent, whose run first asks the model
\* for a plan of its own
ExecutorKinds == {"toolcall", "planning"}

NewExecutor(kind) ==
    [kind |-> kind, state |-> "IDLE", current_step |-> 0,
     max_steps |-> MaxSteps]

NewFlow ==
    [pc |-> "idle", active_plan_id |-> "p1", current_step_index |-> 0 - 1,
     executor |-> NewExecutor("toolcall"), result |-> "none",
     executed |-> 0, sawFinished |-> FALSE, ranAfterFinished |-> FALSE,
     lastRaised |-> FALSE]

\* how executor.run(request) with a request can end: the agent after it,
\* whether it raised, and whether a special tool set FINISHED during it.
\* run leaves state_context on every path, which puts the state back.
RunOutcomes(e) ==
    LET left == e.max_steps - e.current_step
        After(k) == [e EXCEPT !.current_step = @ + k]
        Out(a, raised, finished) ==
            [executor |-> a, raised |-> raised, finished |-> finished]
    IN IF e.state /= "IDLE" THEN { Out(e, TRUE, FALSE) }
       ELSE (IF e.kind = "planning" THEN { Out(e, TRUE, FALSE) } ELSE {})
            \cup (IF left = 0 THEN { Out(e, FALSE, FALSE) }
                  ELSE { Out(After(left), FALSE, FALSE) }
                       \cup { Out(After(k), TRUE, FALSE) : k \in 1..left }
                       \cup { Out(After(k), FALSE, TRUE) : k \in 1..left })

\* index (0-based) of the first step that is not_started or in_progress,
\* -1 when there is none or the plan is not stored
FirstActive(t, plan_id) ==
    IF plan_id \notin DOMAIN t.plans THEN 0 - 1
    ELSE LET st == t.plans[plan_id].step_statuses
             open == { i \in 1..Len(st) :
                         st[i] \in {"not_started", "in_progress"} }
         IN IF open = {} THEN 0 - 1
            ELSE (CHOOSE i \in open : \A j \in open : i <= j) - 1

\* what the model answers to _create_initial_plan: nothing (the request
\* fails), no tool call, or a call of the planning tool
PlanAnswers ==
    { [command |-> "raise"] @@ NoArgs, [command |-> "none"] @@ NoArgs }
    \cup { c \in PlanningCalls :
             c.command \in {"create", "list"} /\ c.plan_id = "" }

\* PlanningFlow.execute up to its loop
FlowExecute ==
    \E input_text \in {"", "q"}, answer \in PlanAnswers :
        /\ flow.pc = "idle"
        /\ IF input_text = ""
           THEN /\ answer.command = "none"
                /\ flow' = [flow EXCEPT !.pc = "loop"]
                /\ UNCHANGED planning
           ELSE IF answer.command = "raise"
           THEN /\ flow' = [flow EXCEPT !.pc = "done",
                                        !.result = "failed"]
                /\ UNCHANGED planning
           ELSE LET c == IF answer.command = "none"
                         THEN [command |-> "create",
                               plan_id |-> flow.active_plan_id,
                               title |-> "T", steps |-> DefaultSteps]
                              @@ NoArgs
                         ELSE [answer EXCEPT
                               !.plan_id = flow.active_plan_id]
                    res == PlanningToolExecute(planning, c)
                IN /\ planning' = res.tool
                   /\ flow' =
                        IF res.raised
                        THEN [flow EXCEPT !.pc = "done",
                                          !.result = "failed"]
                        ELSE IF flow.active_plan_id
                                  \notin DOMAIN res.tool.plans
                        THEN [flow EXCEPT !.pc = "done",
                                          !.result = "no plan"]
                        ELSE [flow EXCEPT !.pc = "loop"]
        /\ UNCHANGED <<bash, agent, pyexec>>
        /\ UNCHANGED NotTools

\* the head of the loop: _get_current_step_info, and _finalize_plan when
\* no step is left
FlowSelect ==
    \E llm_ok \in BOOLEAN, out \in RunOutcomes(flow.executor) :
        /\ flow.pc = "loop"
        /\ LET i == FirstActive(planning, flow.active_plan_id)
           IN IF i < 0
              THEN /\ flow' =
                        [flow EXCEPT
                         !.pc = "done", !.result = "finalized",
                         !.current_step_index = i,
                         !.executor = IF llm_ok THEN @ ELSE out.executor]
                   /\ UNCHANGED planning
              ELSE /\ llm_ok
                   /\ out = CHOOSE o \in RunOutcomes(flow.executor) : TRUE
                   /\ planning' = MarkStep(planning, flow.active_plan_id,
                                      TRUE, i, "in_progress", "").tool
                   /\ flow' = [flow EXCEPT !.pc = "step",
                                           !.current_step_index = i]
        /\ UNCHANGED <<bash, agent, pyexec>>
        /\ UNCHANGED NotTools

\* the rest of the loop body: _execute_step and the test for termination
FlowExecuteStep ==
    \E out \in RunOutcomes(flow.executor) :
        /\ flow.pc = "step"
        /\ planning' =
             IF out.raised THEN planning
             ELSE MarkStep(planning, flow.active_plan_id, TRUE,
                      flow.current_step_index, "completed", "").tool
        /\ flow' = [flow EXCEPT
                    !.executor = out.executor,
                    !.executed = IF @ < MaxPlanSteps + 1 THEN @ + 1 ELSE @,
                    !.lastRaised = out.raised,
                    !.ranAfterFinished = @ \/ flow.sawFinished,
                    !.sawFinished = @ \/ out.finished,
                    !.pc = IF out.executor.state = "FINISHED"
                           THEN "done" ELSE "loop",
                    !.result = IF out.executor.state = "FINISHED"
                               THEN "terminated" ELSE @]
        /\ UNCHANGED <<bash, agent, pyexec>>
        /\ UNCHANGED NotTools

\* ---------------------------------------------------------------------
\* PythonExecute (app/tool/python_execute.py). sys.stdout is 0 for the
\* stream the process started with, which is also sys.__stdout__, and i for
\* the StringIO buffer of the worker thread of the i-th call.

PyRuns == 1..MaxPyRuns

NoThread == [pc |-> "none", observation |-> "", failed |-> FALSE]

NewPythonExecute ==
    [stdout |-> 0, n |-> 0,
     threads |-> [i \in PyRuns |-> NoThread],
     call |-> [pc |-> "idle", id |-> 0, result |-> "none"]]

\* execute is called: it starts the worker thread and joins it; the join
\* blocks the event loop, so one call is in progress at a time
PyExecute ==
    /\ pyexec.call.pc /= "joining"
    /\ pyexec.n < MaxPyRuns
    /\ pyexec' = [pyexec EXCEPT
                  !.n = @ + 1,
                  !.threads[pyexec.n + 1].pc = "started",
                  !.call = [pc |-> "joining", id |-> pyexec.n + 1,
                            result |-> "none"]]
    /\ UNCHANGED <<bash, agent, planning, flow>>
    /\ UNCHANGED NotTools

\* run_code redirects sys.stdout to its buffer and starts exec(code)
PyThreadRedirect ==
    \E i \in PyRuns :
        /\ pyexec.threads[i].pc = "started"
        /\ pyexec' = [pyexec EXCEPT !.stdout = i,
                                    !.threads[i].pc = "running"]
        /\ UNCHANGED <<bash, agent, planning, flow>>
        /\ UNCHANGED NotTools

\* exec(code) ends: it returns, and run_code sets sys.stdout back to
\* sys.__stdout__ and stores the output, or it raises, and run_code stores
\* the error text
PyThreadEnd ==
    \E i \in PyRuns, raised \in BOOLEAN :
        /\ pyexec.threads[i].pc = "running"
        /\ pyexec' = [pyexec EXCEPT
                      !.stdout = IF raised THEN @ ELSE 0,
                      !.threads[i] =
                          [pc |-> "done",
                           observation |-> IF raised THEN "error"
                                           ELSE "output",
                           failed |-> raised]]
        /\ UNCHANGED <<bash, agent, planning, flow>>
        /\ UNCHANGED NotTools

\* thread.join returns because the thread has ended: execute returns result
PyJoin ==
    /\ pyexec.call.pc = "joining"
    /\ pyexec.threads[pyexec.call.id].pc = "done"
    /\ pyexec' = [pyexec EXCEPT
                  !.call.pc = "done",
                  !.call.result = pyexec.threads[pyexec.call.id].observation]
    /\ UNCHANGED <<bash, agent, planning, flow>>
    /\ UNCHANGED NotTools

\* thread.join returns at the timeout with the thread alive: execute
\* returns the timeout result and leaves the thread running
PyTimeout ==
    /\ pyexec.call.pc = "joining"
    /\ pyexec.threads[pyexec.call.id].pc /= "done"
    /\ pyexec' = [pyexec EXCEPT !.call.pc = "done",
                                !.call.result = "timeout"]
    /\ UNCHANGED <<bash, agent, planning, flow>>
    /\ UNCHANGED NotTools


SessIdle ==
    /\ calls = [c \in Callers |-> IdleCall]
    /\ wire = <<>>
    /\ stdin = <<>>
    /\ running = 1
    /\ zombies = 0
    /\ issued = 0
    /\ written = <<>>
    /\ timedOut = FALSE
    /\ overlapped = FALSE
    /\ stream = "open"
    /\ attach = Attached

\* no tool has been used and no agent has run
ToolsIdle ==
    /\ bash = NewBash
    /\ agent = NewAgent
    /\ planning = NewPlanningTool
    /\ flow = NewFlow
    /\ pyexec = NewPythonExecute

LifeIdle ==
    /\ engine = [c \in ContainerIds |-> "absent"]
    /\ hostDirs = {}
    /\ sb = NewSandbox
    /\ held = FALSE
    /\ nCreates = 0
    /\ lastOp = NoOp

\* the state a successful LocalSandboxClient.create leaves
LifeCreated ==
    LET st == Create([obj |-> NewSandbox,
                      eng |-> [c \in ContainerIds |-> "absent"],
                      dirs |-> {}], 1, 0, NoFailure)
    IN /\ engine = st.eng
       /\ hostDirs = st.dirs
       /\ sb = st.obj
       /\ held = TRUE
       /\ nCreates = 1
       /\ lastOp = [NoOp EXCEPT !.op = "create", !.cid = 1]

\* a created sandbox whose session has seen the first prompt, used by one
\* caller that awaits each run_command before it makes the next
InitSession == LifeCreated /\ SessIdle /\ ToolsIdle /\ callers = {1} /\ FilesIdle

NextSession ==
    \/ RunCommand
    \/ Recv
    \/ Timeout
    \/ ZombieRecv
    \/ ShellEmit
    \/ ShellDone

SpecSession == InitSession /\ [][NextSession]_vars

\* the same sandbox used by several callers at once
InitConcurrent == LifeCreated /\ SessIdle /\ ToolsIdle /\ callers = Callers /\ FilesIdle

SpecConcurrent == InitConcurrent /\ [][NextSession]_vars

InitLife == LifeIdle /\ SessIdle /\ ToolsIdle /\ callers = {} /\ FilesIdle

NextLife ==
    \/ SandboxCreate
    \/ ClientCreate
    \/ SandboxCleanup
    \/ ClientCleanup

SpecLife == InitLife /\ [][NextLife]_vars

\* one caller and its LocalSandboxClient, from the client's construction on
InitFacade ==
    LifeIdle /\ SessIdle /\ ToolsIdle /\ callers = {1} /\ FsIdle /\ inputs = FacadeInputs

\* every operation of the facade, with commands that end in time
NextFacade ==
    \/ ClientCreate
    \/ ClientCleanup
    \/ RunCommand
    \/ Recv
    \/ ShellEmit
    \/ ShellDone
    \/ SandboxWriteFile
    \/ SandboxReadFile
    \/ SandboxCopyTo
    \/ SandboxCopyFrom

SpecFacade == InitFacade /\ [][NextFacade]_vars

\* create, run_command and cleanup, with commands that may time out
\* callers that give run_command a timeout or none, on a sandbox whose
\* configured timeout is cfg (0: none configured)
DeadlineInputs(cfg) ==
    [paths |-> {}, contents |-> {}, sources |-> {}, dests |-> {},
     cmds |-> {1, 4}, failAts |-> {0}, failures |-> {NoFailure},
     timeouts |-> {0, 2}, config_timeout |-> cfg]

InitDeadline ==
    /\ LifeCreated /\ SessIdle /\ ToolsIdle /\ callers = {1} /\ FsIdle
    /\ \E cfg \in {0, 3} : inputs = DeadlineInputs(cfg)

\* asyncio.wait_for fires when its timeout has passed; bash and the
\* container owe the caller nothing
SpecDeadline == InitDeadline /\ [][NextSession]_vars /\ WF_vars(Timeout)

\* a terminal whose session has started bash and begins its handshake; the
\* caller closes the terminal at times, and bash may go away
TerminalInputs ==
    [paths |-> {}, contents |-> {}, sources |-> {}, dests |-> {},
     cmds |-> {1, 4}, failAts |-> {0},
     failures |-> { f \in CleanupFailures :
                      /\ ~f.stop /\ ~f.remove
                      /\ f.close \in {{}, {"sockclose"}, {"inspect"}} },
     timeouts |-> {0}, config_timeout |-> 0]

InitTerminal ==
    /\ LifeCreated /\ ToolsIdle /\ FsIdle /\ inputs = TerminalInputs
    /\ calls = [c \in Callers |-> IdleCall]
    /\ wire = <<>>
    /\ stdin = << [id |-> 0, cmd |-> 0] >>
    /\ running = 1 /\ zombies = 0 /\ issued = 0 /\ written = <<>>
    /\ timedOut = FALSE /\ overlapped = FALSE
    /\ callers = {1}
    /\ stream = "open"
    /\ attach = [pc |-> "reading", buffer |-> <<>>, atEof |-> FALSE]

NextTerminal ==
    \/ AttachRecv
    \/ AttachRecvEof
    \/ RunCommand
    \/ Recv
    \/ RecvEof
    \/ ShellEmit
    \/ ShellDone
    \/ StreamEnds
    \/ TerminalClose

SpecTerminal == InitTerminal /\ [][NextTerminal]_vars

\* every read of the stream returns, and bash goes on while it lives
SpecTerminalFair ==
    /\ InitTerminal /\ [][NextTerminal]_vars
    /\ WF_vars(AttachRecv) /\ WF_vars(AttachRecvEof)
    /\ WF_vars(ShellEmit) /\ WF_vars(ShellDone)

InitBash ==
    /\ LifeIdle /\ SessIdle /\ callers = {} /\ FilesIdle /\ ToolsIdle

NextBash ==
    \/ BashExecute
    \/ BashPoll
    \/ BashTimeout
    \/ BashProcEmit
    \/ BashProcDone
    \/ BashJobEmit
    \/ BashProcExit

SpecBash == InitBash /\ [][NextBash]_vars

InitAgent ==
    /\ LifeIdle /\ SessIdle /\ callers = {} /\ FilesIdle /\ ToolsIdle

NextAgent ==
    \/ AgentRun
    \/ AgentThink
    \/ AgentAct

SpecAgent == InitAgent /\ [][NextAgent]_vars

InitPlanning ==
    /\ LifeIdle /\ SessIdle /\ callers = {} /\ FilesIdle /\ ToolsIdle

NextPlanning == PlanningCommand

SpecPlanning == InitPlanning /\ [][NextPlanning]_vars

InitPython ==
    /\ LifeIdle /\ SessIdle /\ callers = {} /\ FilesIdle /\ ToolsIdle

NextPython ==
    \/ PyExecute
    \/ PyThreadRedirect
    \/ PyThreadEnd
    \/ PyJoin
    \/ PyTimeout

SpecPython == InitPython /\ [][NextPython]_vars

InitFlow ==
    /\ LifeIdle /\ SessIdle /\ callers = {} /\ FilesIdle
    /\ bash = NewBash
    /\ agent = NewAgent
    /\ planning = NewPlanningTool
    /\ pyexec = NewPythonExecute
    /\ \E kind \in ExecutorKinds :
          flow = [NewFlow EXCEPT !.executor = NewExecutor(kind)]

NextFlow ==
    \/ FlowExecute
    \/ FlowSelect
    \/ FlowExecuteStep

SpecFlow == InitFlow /\ [][NextFlow]_vars

\* every call the flow awaits returns or raises
SpecFlowFair ==
    InitFlow /\ [][NextFlow]_vars
    /\ WF_vars(FlowExecute) /\ WF_vars(FlowSelect) /\ WF_vars(FlowExecuteStep)

\* C30: BaseAgent.run called while the agent is not IDLE raises
\* RuntimeError and changes nothing: state, current_step and memory are
\* after the call what they were before it.
C30_NotIdleRunRaises ==
    [][\A r \in RunIds :
          (/\ agent.runs[r].pc = "idle"
           /\ agent'.runs[r].pc /= "idle"
           /\ agent.state /= "IDLE")
          => /\ agent'.runs[r].pc = "done"
             /\ agent'.runs[r].outcome = "RuntimeError"
             /\ Seen(agent') = Seen(agent)
             /\ agent'.next_step_prompt = agent.next_step_prompt]_vars

\* run was called and refused while an earlier run was inside a step
\* whose terminate tool had already set the state to FINISHED
C30_Witness ==
    \E r, q \in RunIds :
        /\ agent.runs[q].pc = "act"
        /\ agent.runs[r].outcome = "RuntimeError"
        /\ agent.runs[r].request = "q"
        /\ agent.runs[r].before.state = "FINISHED"
        /\ agent.runs[r].before.memory /= <<>>
        /\ agent.runs[r].after = agent.runs[r].before

NextReuse ==
    \/ ClientCreate
    \/ ClientCleanup
    \/ RunCommand
    \/ Recv
    \/ Timeout
    \/ ZombieRecv
    \/ ShellEmit
    \/ ShellDone

SpecReuse == InitFacade /\ [][NextReuse]_vars

\* a caller that creates, cleans up and runs commands, directly on the
\* sandbox and through the client, with create failing at any of its
\* steps and cleanup failing at any of its sub-steps
InitHold ==
    /\ LifeIdle /\ SessIdle /\ ToolsIdle /\ callers = {1} /\ FsIdle
    /\ inputs = [FacadeInputs EXCEPT !.failAts = FailPoints,
                                     !.failures =
                    { f \in CleanupFailures :
                          f.close \in {{}, {"sockclose"}} }]

NextHold ==
    \/ SandboxCreate
    \/ SandboxCleanup
    \/ NextReuse

SpecHold == InitHold /\ [][NextHold]_vars

(***************************************************************************)
(* Claims about the life cycle (checked under SpecLife).                   *)
(***************************************************************************)

\* C1: DockerSandbox.cleanup and LocalSandboxClient.cleanup never raise,
\* whatever state the sandbox is in (never created, create failed part-way,
\* created, already cleaned up) and whichever of session close, container
\* stop and container remove fail; the cleanup that a failing create runs
\* does not raise either.
C1_CleanupNeverRaises ==
    /\ lastOp.op \in {"cleanup", "client_cleanup"} => lastOp.raised = "none"
    /\ lastOp.op = "create" => lastOp.raised /= "cleanup error"

\* a cleanup of a fully created sandbox in which both container stop and
\* container remove failed has returned
C1_Witness ==
    /\ lastOp.op \in {"cleanup", "client_cleanup"}
    /\ lastOp.before.terminal /\ lastOp.before.socket
    /\ lastOp.errors = <<"Container stop error", "Container remove error">>

\* C2 (as claimed): after create succeeded and cleanup was then called, with
\* the engine's stop and remove succeeding, the container of that sandbox no
\* longer exists and neither does the host directory create made for the
\* working-directory bind mount.
C2_CreateCleanupLeavesNothing ==
    (lastOp.op \in {"cleanup", "client_cleanup"}
        /\ lastOp.afterCreate /\ lastOp.engineOk)
    => (engine[lastOp.cid] = "absent" /\ lastOp.cid \notin hostDirs)

\* C3 (as claimed): when create fails at any of its steps, cleanup has run,
\* the error is the wrapped creation error carrying the cause, and (the
\* engine's stop and remove succeeding) no container made by that call
\* exists afterwards.
C3_FailedCreateLeavesNoContainer ==
    (lastOp.op = "create" /\ lastOp.raised /= "none" /\ lastOp.engineOk)
    => /\ lastOp.cleanupRan
       /\ lastOp.raised = "RuntimeError"
       /\ lastOp.cause \in { CreateSteps[i] : i \in 1..Len(CreateSteps) }
       /\ engine[lastOp.cid] = "absent"

\* DockerSandbox.cleanup has run, called directly or by the facade
DidCleanup ==
    lastOp.cleanupRan /\ lastOp.op \in {"cleanup", "client_cleanup"}

\* C16: cleanup leaves the sandbox with neither a terminal nor a container
\* reference, and a cleanup that follows a cleanup attempts no session
\* close, no container stop and no container remove and changes nothing.
C16_CleanupIdempotent ==
    /\ [](DidCleanup => (~sb.terminal /\ sb.container = 0))
    /\ []((lastOp.op \in {"cleanup", "client_cleanup"} /\ lastOp.repeat)
            => lastOp.calls = <<>>)
    /\ [][(DidCleanup /\ lastOp'.op \in {"cleanup", "client_cleanup"})
          => (sb' = sb /\ engine' = engine /\ hostDirs' = hostDirs)]_vars

\* a second cleanup of a sandbox that had been created and cleaned up, its
\* container removed
C16_Witness ==
    /\ lastOp.op = "cleanup" /\ lastOp.repeat
    /\ nCreates = 1 /\ engine[1] = "absent" /\ ~held

\* C17: a cleanup of a sandbox that holds a terminal and a container
\* attempts session close, container stop and container remove, in that
\* order, whichever of them fail.
C17_AllStepsAttempted ==
    (lastOp.cleanupRan /\ lastOp.before.terminal
        /\ lastOp.before.container /= 0)
    => lastOp.calls = <<"close", "stop", "remove">>

\* a cleanup whose container stop failed went on to remove the container
C17_Witness ==
    /\ lastOp.op \in {"cleanup", "client_cleanup"}
    /\ lastOp.before.terminal /\ lastOp.before.socket
    /\ lastOp.errors = <<"Container stop error">>
    /\ lastOp.calls = <<"close", "stop", "remove">>
    /\ engine[lastOp.cid] = "absent"

(***************************************************************************)
(* Claims about run_command (SpecSession: one caller; SpecConcurrent:      *)
(* several callers).                                                       *)
(***************************************************************************)
RECURSIVE Concat(_)
Concat(segs) == IF segs = <<>> THEN <<>> ELSE Head(segs) \o Concat(Tail(segs))

\* the output text of a command: its non-blank lines in order, joined and
\* whitespace-trimmed
ExpectedOutput(cmd) ==
    LET lines == SplitLF(Tag(Concat(Commands[cmd].segs), 0, "out"))
        kept  == SelectSeq([i \in 1..Len(lines) |-> RStripCR(lines[i])],
                           LAMBDA l : Strip(Ch(l)) /= <<>>)
    IN Ch(StripB(JoinLF(kept)))

\* C4 (as claimed): a run_command that returned after the shell had run its
\* command to completion (on a session with no earlier timeout and no other
\* call in flight) returned exactly the command's output text: every
\* non-blank output line, in order, whitespace-trimmed, and nothing else.
C4_ResultIsCommandOutput ==
    \A c \in Callers :
        (calls[c].pc = "done" /\ calls[c].ended = "break"
            /\ calls[c].completed /\ calls[c].alone
            /\ ~calls[c].afterTimeout)
        => Ch(calls[c].result) = ExpectedOutput(calls[c].cmd)

\* C5: a call whose read was still waiting for the prompt when its timeout
\* expired raises TimeoutError from the terminal and the sandbox timeout
\* error from DockerSandbox; and a call returns a result only when its read
\* loop has ended at a prompt.
C5_TimeoutRaisesTimeoutKind ==
    \A c \in Callers :
        /\ calls[c].ended = "timeout"
            => /\ calls[c].raised = "TimeoutError"
               /\ calls[c].sandboxRaised = "SandboxTimeoutError"
        /\ (calls[c].pc = "done" /\ calls[c].raised = "none")
            => calls[c].ended = "break"

\* a call has timed out while bash was still running its command
C5_Witness ==
    \E c \in Callers :
        /\ calls[c].ended = "timeout"
        /\ stdin /= <<>> /\ Head(stdin).id = calls[c].id

\* C6 (as claimed): once a run_command on the session has raised a timeout,
\* every later run_command on it is refused with an error and writes
\* nothing to the stream.
C6_RefusedAfterTimeout ==
    \A c \in Callers :
        (calls[c].pc /= "idle" /\ calls[c].afterTimeout)
        => /\ calls[c].pc = "done"
           /\ calls[c].raised /= "none"
           /\ ~calls[c].wrote

\* C7 (as claimed): of commands issued one after the other on one session,
\* the result returned for one holds no byte of the echo or the output of
\* another.
C7_NoForeignOutput ==
    \A c \in Callers :
        (calls[c].pc = "done" /\ calls[c].raised = "none" /\ calls[c].alone)
        => \A i \in 1..Len(calls[c].result) :
              calls[c].result[i].kind \in {"echo", "out"}
              => calls[c].result[i].src = calls[c].id

\* C8 (as claimed): at most one command is in flight on the session: never
\* two calls with their command written and their read loop running.
C8_OneInFlight == Cardinality(InFlight) <= 1

\* C9: a command whose text contains "rm -rf /" is refused with an error,
\* and nothing of it reaches the stream: no write, no echo, no command line
\* for bash.
C9_RmRfRootRejected ==
    \A c \in Callers :
        (calls[c].pc /= "idle"
            /\ Contains(Commands[calls[c].cmd].text, RM_RF_ROOT))
        => /\ calls[c].pc = "done"
           /\ calls[c].raised = "RuntimeError"
           /\ calls[c].sandboxRaised = "RuntimeError"
           /\ ~calls[c].wrote
           /\ \A i \in 1..Len(written) : written[i] /= calls[c].id
           /\ \A i \in 1..Len(wire) : wire[i].src /= calls[c].id
           /\ \A i \in 1..Len(stdin) : stdin[i].id /= calls[c].id

\* "rm -rf /x" was given to run_command after an earlier command had been
\* written to the stream
C9_Witness ==
    \E c \in Callers :
        /\ calls[c].ended = "rejected"
        /\ Contains(Commands[calls[c].cmd].text, RM_RF_ROOT)
        /\ Len(written) > 0

\* command holds, in some letter case, a pattern of the deny-list
Listed(command) ==
    \E risky \in risky_commands : Contains(Lower(command), Lower(risky))

\* C19 (as claimed): a command given to the session that holds, in any
\* letter case, one of the patterns of the deny-list ("rm -rf /", "mkfs",
\* "dd if=/dev/zero", the fork bomb, "chmod -R 777 /", "chown -R") is
\* refused with an error before anything of it is written to the stream.
C19_DenyListRejects ==
    \A c \in Callers :
        (calls[c].pc /= "idle" /\ calls[c].ended /= "uninitialized"
            /\ Listed(Commands[calls[c].cmd].text))
        => /\ calls[c].ended = "rejected"
           /\ calls[c].raised /= "none"
           /\ ~calls[c].wrote
           /\ \A i \in 1..Len(written) : written[i] /= calls[c].id

\* the step of a run_command that the deny-list refuses
RejectedStep ==
    /\ issued' = issued + 1
    /\ \E c \in Callers :
          calls'[c].id = issued' /\ calls'[c].ended = "rejected"

\* a rejected run_command leaves the container, the terminal and the
\* session stream as they were
C20_RejectionFrame ==
    [][RejectedStep =>
          /\ sb' = sb /\ engine' = engine /\ held' = held
          /\ wire' = wire /\ stdin' = stdin /\ written' = written
          /\ running' = running /\ zombies' = zombies
          /\ timedOut' = timedOut]_vars

\* C20 (as claimed): a run_command rejected by the deny-list leaves the
\* sandbox as it was (same container, same terminal, nothing written to or
\* read from the session stream), and the next acceptable command on the
\* session, once bash has run it and the call has returned, has returned
\* the command's output.
C20_RejectionLeavesSessionUsable ==
    /\ C20_RejectionFrame
    /\ [](\A c \in Callers :
            (calls[c].afterRejected /\ ~calls[c].afterTimeout
                /\ calls[c].alone /\ calls[c].pc = "done"
                /\ calls[c].ended = "break" /\ calls[c].completed)
            => Ch(calls[c].result) = ExpectedOutput(calls[c].cmd))

\* C23 (as claimed): a read loop that has ended at the prompt marker (on a
\* session with no earlier timeout and no other call in flight) ended after
\* bash had finished the call's command: execute does not return while the
\* command is running or with output of the command still to come.
C23_BreakOnlyAtCompletion ==
    \A c \in Callers :
        (calls[c].ended = "break" /\ calls[c].alone
            /\ ~calls[c].afterTimeout)
        => calls[c].completed

\* a created sandbox with an empty working directory
InitFiles == LifeCreated /\ SessIdle /\ ToolsIdle /\ callers = {} /\ FilesIdle

NextFiles ==
    \/ SandboxWriteFile
    \/ SandboxReadFile

SpecFiles == InitFiles /\ [][NextFiles]_vars

\* C10 (as claimed): for every path with no ".." segment and every content,
\* write_file(path, content) succeeds and the read_file(path) that follows
\* it returns exactly content.
C10_WriteReadRoundTrip ==
    /\ (fileOp.op = "write" /\ ~HasDotDot(fileOp.path))
        => fileOp.raised = "none"
    /\ (fileOp.op = "read" /\ fileOp.wrote /\ ~HasDotDot(fileOp.path))
        => (fileOp.raised = "none" /\ fileOp.result = fileOp.content)

\* a created sandbox and a caller that uses all four file operations
InitCopy == LifeCreated /\ SessIdle /\ ToolsIdle /\ callers = {} /\ FsIdle
            /\ inputs = CopyInputs

NextCopy ==
    \/ SandboxWriteFile
    \/ SandboxReadFile
    \/ SandboxCopyTo
    \/ SandboxCopyFrom

SpecCopy == InitCopy /\ [][NextCopy]_vars

(***************************************************************************)
(* Claims about file transfer (SpecFiles: write and read; SpecCopy: all    *)
(* four operations).                                                       *)
(***************************************************************************)

\* what is at the container path of the last operation
AtPath == Norm(SafeResolve(fileOp.path))

\* the path of the last operation has a ".." segment
DotDotSegment ==
    Contains(<<"/">> \o fileOp.path \o <<"/">>, <<"/", ".", ".", "/">>)

\* C11: read_file and copy_from of a path the sandbox accepts at which the
\* container has neither a file nor a directory raise FileNotFoundError,
\* not the generic RuntimeError.
C11_MissingPathIsNotFound ==
    (fileOp.op \in {"read", "copy_from"} /\ ~DotDotSegment
        /\ AtPath \notin DOMAIN fsFiles /\ AtPath \notin fsDirs)
    => fileOp.raised = "FileNotFoundError"

\* copy_from was given a path that does not exist in a container that
\* holds other files
C11_Witness ==
    /\ fileOp.op = "copy_from" /\ ~DotDotSegment
    /\ AtPath \notin DOMAIN fsFiles /\ AtPath \notin fsDirs
    /\ fsFiles /= NoFiles

\* C12 (as claimed): after copy_to(D, p) of a host directory tree D has
\* succeeded, copy_from(p, F) into a new, empty F raises nothing and leaves
\* in F exactly D's files, at the same relative paths with the same bytes.
C12_CopyRoundTrip ==
    (fileOp.op = "copy_from" /\ fileOp.wrote /\ fileOp.srcKind = "dir"
        /\ fileOp.fresh)
    => /\ fileOp.raised = "none"
       /\ hostFs[fileOp.host].files = fileOp.content

\* C13: read_file, write_file, copy_to and copy_from given a container path
\* with a ".." segment raise, having made no engine call and sent no
\* command to the session.
C13_DotDotRejectedFirst ==
    (fileOp.op /= "none" /\ DotDotSegment)
    => /\ fileOp.raised /= "none"
       /\ fileOp.engineCalls = 0
       /\ fileOp.sessionCmds = 0

\* copy_to of an existing host file to "../f" was refused after the
\* container had been given files
C13_Witness ==
    /\ fileOp.op = "copy_to" /\ DotDotSegment
    /\ fileOp.srcKind = "file"
    /\ fileOp.raised = "RuntimeError"
    /\ fsFiles /= NoFiles

\* C22 (as claimed): a copy_to that has returned without raising has left
\* a file or a directory at its destination path in the container.
C22_CopyToVerified ==
    (fileOp.op = "copy_to" /\ fileOp.ready /\ fileOp.raised = "none")
    => (AtPath \in DOMAIN fsFiles \/ AtPath \in fsDirs)

\* C26: write_file and read_file on a created sandbox get from
\* _safe_resolve_path the path itself when it is absolute and has no ".."
\* segment, the working directory, "/" and the path when it is relative and
\* has no ".." segment, and nothing when it has a ".." segment: then the
\* operation raises.
C26_PathResolution ==
    (fileOp.op \in {"write", "read"} /\ fileOp.ready)
    => IF DotDotSegment
       THEN fileOp.resolved = <<>> /\ fileOp.raised /= "none"
       ELSE IF fileOp.path /= <<>> /\ Head(fileOp.path) = "/"
       THEN fileOp.resolved = fileOp.path
       ELSE fileOp.resolved = WORK_DIR \o <<"/">> \o fileOp.path

\* a file written at a relative path has been read back at its absolute
\* path
C26_Witness ==
    /\ fileOp.op = "read" /\ fileOp.raised = "none"
    /\ Head(fileOp.path) = "/"
    /\ fileOp.resolved = fileOp.path
    /\ fileOp.result = fileOp.content

\* C24: every run_command whose command was written reads under a
\* positive timeout: the caller's value when it is not zero, else the
\* configured timeout when that is not zero (else the terminal's default);
\* and every such call returns or raises in the end, whatever bash does.
C24_AlwaysUnderTimeout ==
    /\ [](\A c \in Callers :
            calls[c].pc = "reading"
            => /\ calls[c].timeout > 0
               /\ calls[c].given /= 0 => calls[c].timeout = calls[c].given
               /\ (calls[c].given = 0 /\ inputs.config_timeout /= 0)
                    => calls[c].timeout = inputs.config_timeout)
    /\ \A c \in Callers :
          (calls[c].pc = "reading") ~> (calls[c].pc = "done")

\* a run_command given no timeout on a sandbox with none configured has
\* timed out while bash had not yet begun to answer
C24_Witness ==
    \E c \in Callers :
        /\ calls[c].ended = "timeout" /\ calls[c].given = 0
        /\ inputs.config_timeout = 0
        /\ calls[c].sandboxRaised = "SandboxTimeoutError"
        /\ stdin /= <<>> /\ Head(stdin).id = calls[c].id /\ running = 1

(***************************************************************************)
(* Claims about the terminal and its session (SpecTerminal).               *)
(***************************************************************************)

\* C21: a read loop that met the end of the stream with a buffered tail
\* that is not the prompt marker has raised (RuntimeError from execute and
\* from DockerSandbox.run_command) and has returned nothing: what it had
\* read of the output is not given back as a result.
C21_EofRaises ==
    \A c \in Callers :
        (calls[c].atEof /\ ~EndsWith(Ch(calls[c].buffer), PROMPT))
        => /\ calls[c].pc = "done"
           /\ calls[c].ended = "eof"
           /\ calls[c].raised = "RuntimeError"
           /\ calls[c].sandboxRaised = "RuntimeError"
           /\ calls[c].result = <<>>

\* the stream ended after the read loop had taken a line of the command's
\* output and before the prompt
C21_Witness ==
    \E c \in Callers :
        /\ calls[c].ended = "eof"
        /\ calls[c].result_lines /= <<>>
        /\ calls[c].raised = "RuntimeError"

\* a byte bash wrote before it read its first command
FromStartup(b) == b.src = 0 /\ b.kind \in {"out", "prompt"}

\* C25: the handshake has ended only with the prompt marker in what it
\* read; no run_command is made before it has ended; and once it has ended
\* no byte bash wrote before its first prompt is left on the stream or is
\* part of what a command returns.
C25_HandshakeConsumesStartup ==
    /\ attach.pc = "done" /\ attach.buffer /= <<>>
         => Contains(Ch(attach.buffer), PROMPT)
    /\ attach.pc = "done" => \A i \in 1..Len(wire) : ~FromStartup(wire[i])
    /\ \A c \in Callers :
         /\ calls[c].pc /= "idle" => attach.pc = "done"
         /\ \A i \in 1..Len(calls[c].buffer) :
               ~FromStartup(calls[c].buffer[i])
         /\ \A i \in 1..Len(calls[c].result) :
               ~FromStartup(calls[c].result[i])

\* the first command has returned "a" on a session whose handshake read
\* bash's two warning lines and its prompt
C25_Witness ==
    \E c \in Callers :
        /\ calls[c].id = 1 /\ calls[c].pc = "done"
        /\ calls[c].ended = "break" /\ Ch(calls[c].result) = <<"a">>
        /\ Ch(attach.buffer) = <<"w", "CR", "LF", "j", "CR", "LF", "$", " ">>

\* C27 (as claimed): after close the session holds neither its socket nor
\* its exec id; a close that follows a close calls nothing and does not
\* raise; and every execute made after a close is refused with an error
\* and writes nothing.
C27_ClosedIsTerminal ==
    /\ lastOp.op = "close"
         => /\ ~sb.socket /\ ~sb.exec_id
            /\ lastOp.raised = "none"
    /\ (lastOp.op = "close" /\ lastOp.repeat) => lastOp.calls = <<>>
    /\ \A c \in Callers :
         calls[c].afterClose
         => /\ calls[c].pc = "done"
            /\ calls[c].raised /= "none"
            /\ ~calls[c].wrote

(***************************************************************************)
(* Claims about the Bash tool (SpecBash).                                  *)
(***************************************************************************)

\* C28 (as claimed): every run made on a session after a run on it has
\* timed out raises the timed-out error and writes nothing to bash.
C28_TimedOutRunsRaise ==
    bash.call.afterTimeout
    => /\ bash.call.kind = "ToolError"
       /\ bash.call.message = "timed out"
       /\ ~bash.call.wrote

\* C28 (amended): the timed-out flag of a session stays set; every run made
\* on the session after a timeout writes nothing to bash and raises the
\* timed-out error, or, when bash has exited, returns the error result
\* that tells to restart the tool; and a run is refused for a timeout only
\* on a session that has timed out, so that a session started by
\* execute(restart=True) accepts commands.
C28_TimedOutSessionRefuses ==
    /\ [][(bash.timed_out /\ bash'.session = bash.session)
             => bash'.timed_out]_vars
    /\ [](bash.call.afterTimeout
            => /\ bash.call.pc = "done"
               /\ ~bash.call.wrote
               /\ \/ /\ bash.call.kind = "ToolError"
                     /\ bash.call.message = "timed out"
                  \/ /\ bash.call.kind = "ToolResult"
                     /\ bash.call.message = "exited"
                     /\ bash.call.session = bash.session => ~bash.alive)
    /\ []((bash.call.message = "timed out" /\ ~bash.call.wrote)
            => bash.call.afterTimeout)
    /\ []((bash.call.pc /= "idle" /\ bash.call.cmd /= 0
              /\ ~bash.call.restart /\ ~bash.call.afterTimeout)
            => (bash.call.wrote \/ bash.call.message = "exited"))

\* the third call, "echo a", was refused with the timed-out error on the
\* first session, on which a command had timed out
C28_Witness ==
    /\ bash.call.afterTimeout /\ bash.call.id = 3 /\ bash.call.cmd = 1
    /\ bash.call.kind = "ToolError" /\ bash.call.message = "timed out"
    /\ bash.session = 1 /\ bash.alive /\ bash.timed_out

C14_UninitializedRefused ==
    /\ (fileOp.op /= "none" /\ ~fileOp.ready)
        => /\ fileOp.raised = NotInitialized
           /\ fileOp.engineCalls = 0
           /\ fileOp.sessionCmds = 0
    /\ \A c \in Callers :
        (calls[c].pc /= "idle" /\ calls[c].sandbox = 0)
        => (calls[c].raised = NotInitialized /\ ~calls[c].wrote)

\* the sandbox object a successful create leaves, for container k
CreatedSandbox(k) ==
    [container |-> k, terminal |-> TRUE, session |-> TRUE,
     socket |-> TRUE, exec_id |-> TRUE]

\* C15: LocalSandboxClient.cleanup leaves the facade without a sandbox; a
\* create that succeeds afterwards leaves it exactly as a first create
\* does (a sandbox with a running container of its own and a session whose
\* stream nothing was written to); and "echo a" run on it is accepted and
\* returns "a", as on a new facade.
C15_ReusableAfterCleanup ==
    /\ lastOp.op = "client_cleanup" => ~held
    /\ (lastOp.op = "create" /\ lastOp.raised = "none" /\ written = <<>>)
        => /\ held
           /\ sb = CreatedSandbox(lastOp.cid)
           /\ engine[lastOp.cid] = "running"
           /\ wire = <<>> /\ stdin = <<>> /\ zombies = 0 /\ ~timedOut
    /\ \A c \in Callers :
        /\ (calls[c].pc /= "idle" /\ calls[c].sandbox /= 0)
            => calls[c].raised /= NotInitialized
        /\ (calls[c].pc = "done" /\ calls[c].sandbox /= 0
            /\ calls[c].ended = "break" /\ calls[c].completed
            /\ calls[c].alone /\ ~calls[c].afterTimeout
            /\ calls[c].cmd = 1)
            => Ch(calls[c].result) = <<"a">>

\* create, cleanup, create have all succeeded, the first container is
\* gone, and "echo a" has returned on the second sandbox
C15_Witness ==
    \E c \in Callers :
        /\ calls[c].sandbox = 2
        /\ calls[c].pc = "done" /\ calls[c].ended = "break"
        /\ Ch(calls[c].result) = <<"a">>
        /\ lastOp.allOk /\ engine[1] = "absent"

\* the containers made through the facade that still exist
Live == { k \in ContainerIds : engine[k] /= "absent" }

\* C18 (as claimed): while every create has succeeded and every stop and
\* remove of the engine has succeeded, at most one container made through
\* the facade exists, and none exists once cleanup has returned.
C18_AtMostOneContainer ==
    lastOp.allOk
    => /\ Cardinality(Live) <= 1
       /\ lastOp.op = "client_cleanup" => Live = {}

\* every step() of a run returns in the end: the model answers, the tools
\* complete
SpecAgentFair ==
    InitAgent /\ [][NextAgent]_vars /\ WF_vars(AgentThink) /\ WF_vars(AgentAct)

\* C31: when step() raises inside state_context during run, the agent is in
\* the ERROR state once the exception has propagated out of run.
C31_RaisedRunLeavesError ==
    \A r \in RunIds :
        agent.runs[r].outcome = "raised" => agent.runs[r].after.state = "ERROR"

RECURSIVE StepsOf(_, _)
\* step() calls made by the runs 1..r
StepsOf(a, r) == IF r = 0 THEN 0 ELSE a.runs[r].steps + StepsOf(a, r - 1)

\* C32: a run whose steps return ends; it makes at most max_steps calls of
\* step(), makes none after the step in which the state became FINISHED,
\* and current_step never exceeds max_steps.
C32_RunTerminates ==
    /\ [](\A r \in RunIds :
            /\ agent.runs[r].steps <= agent.max_steps
            /\ agent.runs[r].finishedAt > 0
               => agent.runs[r].steps = agent.runs[r].finishedAt
            /\ agent.current_step <= agent.max_steps)
    /\ \A r \in RunIds :
          (agent.runs[r].pc \in {"think", "act"}) ~> (agent.runs[r].pc = "done")

\* a run that started with budget left has returned after a step in which
\* terminate was called, with budget still left
C32_Witness ==
    \E r \in RunIds :
        /\ agent.runs[r].outcome = "returned"
        /\ agent.runs[r].finishedAt = 2
        /\ agent.runs[r].steps = 2
        /\ agent.runs[r].after.current_step < agent.max_steps

\* C35: current_step never decreases, and all the run calls made on one
\* agent together execute step() at most max_steps times.
C35_BudgetIsCumulative ==
    /\ [][agent'.current_step >= agent.current_step]_vars
    /\ [](StepsOf(agent, MaxRuns) <= agent.max_steps)

\* a second run that was accepted found the budget used up by the first
\* and returned without a step
C35_Witness ==
    \E q, r \in RunIds :
        /\ q < r
        /\ agent.runs[q].outcome = "returned"
        /\ agent.runs[q].steps = agent.max_steps
        /\ agent.runs[r].outcome = "returned"
        /\ agent.runs[r].steps = 0
        /\ agent.runs[r].terminated

\* C38: after any sequence of commands, every stored plan has steps,
\* step_statuses and step_notes of equal length, every status is one of
\* not_started, in_progress, completed, blocked, and the active plan id is
\* unset or the id of a stored plan.
C38_PlanStoreInvariant ==
    /\ \A p \in DOMAIN planning.plans :
          LET plan == planning.plans[p]
          IN /\ Len(plan.step_statuses) = Len(plan.steps)
             /\ Len(plan.step_notes) = Len(plan.steps)
             /\ \A i \in 1..Len(plan.step_statuses) :
                   plan.step_statuses[i] \in Statuses
    /\ planning.current = "" \/ planning.current \in DOMAIN planning.plans

\* plan p1 holds two steps, the second marked completed with a note,
\* after the active plan p2 was deleted
C38_Witness ==
    /\ DOMAIN planning.plans = {"p1"}
    /\ planning.current = ""
    /\ planning.plans["p1"].steps = <<"a", "b">>
    /\ planning.plans["p1"].step_statuses = <<"not_started", "completed">>
    /\ planning.plans["p1"].step_notes = <<"", "n">>

\* C33: PlanningFlow.execute executes no further plan step once a special
\* tool has set the executor's state to FINISHED during the step just run.
C33_StopsAfterFinished == ~flow.ranAfterFinished

\* C34: PlanningFlow.execute terminates when every agent.run and model call
\* returns or raises, also when the executor's run raises on every attempt.
C34_FlowTerminates == (flow.pc /= "idle") ~> (flow.pc = "done")

\* C36: between operations a sandbox that holds a terminal holds a
\* container, and every run_command the sandbox accepted (it did not raise
\* "Sandbox not initialized") was made on a sandbox with a container.
C36_TerminalImpliesContainer ==
    /\ sb.terminal => sb.container /= 0
    /\ \A c \in callers :
          (calls[c].id /= 0 /\ calls[c].ended /= "uninitialized")
          => calls[c].sandbox /= 0

\* a command was accepted on the first container; after the cleanup the
\* sandbox holds neither terminal nor container
C36_Witness ==
    /\ \E c \in callers : calls[c].wrote /\ calls[c].sandbox = 1
    /\ lastOp.op = "client_cleanup"
    /\ lastOp.before.terminal
    /\ ~sb.terminal
    /\ sb.container = 0

\* C37: the attach handshake terminates on every stream: it returns once
\* the prompt marker has arrived, and ends with an error when the stream is
\* closed before any prompt marker.
C37_HandshakeTerminates == <>(attach.pc \in {"done", "failed"})

\* C39: once PythonExecute.execute has returned, whether the code
\* finished, raised or was still running at the timeout, sys.stdout is the
\* original stream, and no abandoned worker thread redirects it later.
C39_StdoutRestored == pyexec.call.pc = "done" => pyexec.stdout = 0
====
